---- MODULE Spec2Model ----
(***************************************************************************)
(* Model of the credit-scoring service: the persisted artifact triple      *)
(* (ensemble model, feature schema, background sample), the feedback       *)
(* stores, the in-process artifact cache and the request handlers that     *)
(* train, retrain, predict and explain.                                    *)
(*                                                                         *)
(* Granularity: one step per filesystem or module-global access.  A        *)
(* joblib.dump / joblib.load of one file is one step; the computation      *)
(* between two accesses belongs to the step of the access that follows.    *)
(*                                                                         *)
(* Abstractions:                                                           *)
(*  - no code of the repository writes feedback.jsonl, so the file is      *)
(*    fixed at Init; the existence test and read_text are one read;        *)
(*  - the per-row calls of preprocess_data_for_prediction in retraining    *)
(*    read the schema file in one step;                                    *)
(*  - an estimator, a schema and a background sample are recorded by the   *)
(*    request that produced them, their column list and their row count;   *)
(*  - model.fit, joblib.dump and db.commit may raise: the outcome is a     *)
(*    nondeterministic choice of the step;                                 *)
(*  - retrain_model_from_feedback() is also called directly, the way       *)
(*    check_and_retrain calls it, without that function's count test.      *)
(***************************************************************************)
EXTENDS Integers, Sequences, FiniteSets, TLC

\* ------------------------------------------------------------------------
\* Bounds of the model
\* ------------------------------------------------------------------------
\* request-handling threads of the single server process
NProcs == 2
\* requests served in one behaviour
MaxReqs == 3
\* calls of the codec on one record in one behaviour
MaxCalls == 2
\* feedback files of the retrain specification: distinct records per label,
\* and repetitions of the first record appended to them
MaxZeros == 5
MaxOnes == 2
MaxDupZeros == 5
MaxDupOnes == 1

\* ------------------------------------------------------------------------
\* Program constants
\* ------------------------------------------------------------------------
\* min_samples one too small
min_samples_one_less == 5 - 1
min_samples == 5
\* imbalance_threshold = 0.1, kept as the fraction 1 / imbalance_den
imbalance_den == 10
background_rows == 100
\* positional parameters of retrain_model_from_feedback, and the number
\* retrain_api passes (the db session)
retrain_params == 0
retrain_api_args == 1

\* train_ensemble_model is given the frame of the startup dataset; its row
\* count is a bound of the model (the data file is not part of the source),
\* above the size of the background sample as the dataset is
DatasetRows == 101
\* rows of the largest feedback batch of the sampling specification
BatchRows == 101

NaN == -1

required_cols ==
  << "person_age", "person_income", "person_home_ownership",
     "person_emp_length", "loan_intent", "loan_grade",
     "loan_amnt", "loan_int_rate", "loan_percent_income",
     "cb_person_default_on_file", "cb_person_cred_hist_length",
     "actual_status" >>

raw_cols == SubSeq(required_cols, 1, Len(required_cols) - 1)

CATEGORIES ==
  << << "person_home_ownership", << "MORTGAGE", "OTHER", "OWN", "RENT" >> >>,
     << "loan_intent", << "DEBTCONSOLIDATION", "EDUCATION", "HOMEIMPROVEMENT",
                          "MEDICAL", "PERSONAL", "VENTURE" >> >>,
     << "loan_grade", << "A", "B", "C", "D", "E", "F", "G" >> >>,
     << "cb_person_default_on_file", << "N", "Y" >> >> >>

Range(s) == { s[i] : i \in DOMAIN s }

CategoricalFields == { CATEGORIES[i][1] : i \in DOMAIN CATEGORIES }

\* ------------------------------------------------------------------------
\* Feature codec: the column list it produces
\* ------------------------------------------------------------------------
\* a feature name is <<field>> for a numeric column and <<field, category>>
\* for the indicator f"{field}_{category}"
RECURSIVE OneHotColumns(_)
OneHotColumns(i) ==
  IF i > Len(CATEGORIES) THEN << >>
  ELSE [ j \in 1..Len(CATEGORIES[i][2]) |->
           << CATEGORIES[i][1], CATEGORIES[i][2][j] >> ]
       \o OneHotColumns(i + 1)

\* CodecColumns with the indicators ahead of the numeric columns
CodecColumns_indicators_first ==
  OneHotColumns(1)
  \o [ i \in 1..Len(SelectSeq(raw_cols, LAMBDA c : c \notin CategoricalFields)) |->
        << SelectSeq(raw_cols, LAMBDA c : c \notin CategoricalFields)[i] >> ]
  \o << << "loan_to_income_ratio" >> >>

\* columns of the frame after feature_engineering and one-hot encoding of a
\* frame whose columns are raw_cols: the categorical columns are dropped in
\* place, the ratio and the indicators are appended
CodecColumns ==
  [ i \in 1..Len(SelectSeq(raw_cols, LAMBDA c : c \notin CategoricalFields)) |->
      << SelectSeq(raw_cols, LAMBDA c : c \notin CategoricalFields)[i] >> ]
  \o << << "loan_to_income_ratio" >> >>
  \o OneHotColumns(1)

\* ------------------------------------------------------------------------
\* Feature codec on values: a one-row frame is the sequence of its columns
\* ------------------------------------------------------------------------
\* a cell: the number num / den, or the string str of a categorical cell
Num(n) == [ num |-> n, den |-> 1, str |-> "" ]
Str(c) == [ num |-> 0, den |-> 1, str |-> c ]

Col(name, val) == [ name |-> name, val |-> val ]

\* df.columns.tolist()
Names(df) == [ i \in DOMAIN df |-> df[i].name ]

Has(df, name) == \E i \in DOMAIN df : df[i].name = name

\* df[name]
Get(df, name) == df[CHOOSE i \in DOMAIN df : df[i].name = name].val

\* df[name] = val: in place when the column exists, else a new last column
SetCol(df, name, val) ==
  IF Has(df, name)
  THEN [ i \in DOMAIN df |-> IF df[i].name = name THEN Col(name, val) ELSE df[i] ]
  ELSE Append(df, Col(name, val))

\* df.drop(name, axis=1)
DropCol(df, name) == SelectSeq(df, LAMBDA c : c.name # name)

Frame(df) == [ ok |-> TRUE, exc |-> "", df |-> df ]
KeyError == [ ok |-> FALSE, exc |-> "KeyError", df |-> << >> ]

\* df['loan_to_income_ratio'] = df['loan_amnt'] / df['person_income']
feature_engineering(df) ==
  IF ~Has(df, << "loan_amnt" >>) \/ ~Has(df, << "person_income" >>)
  THEN KeyError
  ELSE Frame(SetCol(df, << "loan_to_income_ratio" >>,
                    [ num |-> Get(df, << "loan_amnt" >>).num,
                      den |-> Get(df, << "person_income" >>).num,
                      str |-> "" ]))

\* (df[col] == cat).astype(int), with a 1 for every category
Indicator_always_one(cell, cat) == Num(1)

\* (df[col] == cat).astype(int)
Indicator(cell, cat) == IF cell.str = cat THEN Num(1) ELSE Num(0)

\* for cat in categories: df[f"{col}_{cat}"] = indicator, from category j on
RECURSIVE EncodeField(_, _, _, _)
EncodeField(df, col, categories, j) ==
  IF j > Len(categories) THEN df
  ELSE EncodeField(SetCol(df, << col, categories[j] >>,
                          Indicator(Get(df, << col >>), categories[j])),
                   col, categories, j + 1)

\* for col, categories in CATEGORIES.items(): the indicators, then
\* df.drop(col, axis=1); from field i on
RECURSIVE OneHotEncoding(_, _)
OneHotEncoding(df, i) ==
  IF i > Len(CATEGORIES) THEN Frame(df)
  ELSE IF ~Has(df, << CATEGORIES[i][1] >>) THEN KeyError
  ELSE OneHotEncoding(
         DropCol(EncodeField(df, CATEGORIES[i][1], CATEGORIES[i][2], 1),
                 << CATEGORIES[i][1] >>),
         i + 1)

\* feature_engineering, then the one-hot loop
Encode(df) ==
  LET fe == feature_engineering(df) IN
    IF ~fe.ok THEN fe ELSE OneHotEncoding(fe.df, 1)

\* the columns of expected missing from df are added as 0, from column i on
RECURSIVE AddMissing(_, _, _)
AddMissing(df, expected, i) ==
  IF i > Len(expected) THEN df
  ELSE AddMissing(IF Has(df, expected[i]) THEN df
                  ELSE Append(df, Col(expected[i], Num(0))),
                  expected, i + 1)

\* alignment that keeps the order of the frame and skips absent columns
AlignFeatures_frame_order(df, expected) ==
  SelectSeq(df, LAMBDA c : c.name \in Range(expected))

\* for col in expected_features: if col not in df.columns: df[col] = 0;
\* df = df[expected_features]
AlignFeatures(df, expected) ==
  LET full == AddMissing(df, expected, 1) IN
    [ i \in DOMAIN expected |-> Col(expected[i], Get(full, expected[i])) ]

\* the same two statements on X in retrain_model_from_feedback
RetrainAlignFeatures(X, expected) ==
  LET full == AddMissing(X, expected, 1) IN
    [ i \in DOMAIN expected |-> Col(expected[i], Get(full, expected[i])) ]

\* preprocess_data_for_prediction(df), schema being feature_names.pkl as
\* it is on disk at the call
preprocess_data_for_prediction(df, schema) ==
  LET e == Encode(df) IN
    IF ~e.ok THEN e
    ELSE Frame(AlignFeatures(e.df, IF schema.exists THEN schema.cols
                                                    ELSE Names(e.df)))

\* ------------------------------------------------------------------------
\* Feedback file: a sequence of JSONL lines
\* ------------------------------------------------------------------------
\* json    : the line parses as a JSON object
\* key     : identifies the values of the eleven raw borrower fields
\* missing : the required fields the object does not carry
\* ltype   : "int" or "str", the JSON type of actual_status
\* label   : the value of actual_status
Line(k, l) ==
  [ json |-> TRUE, key |-> k, missing |-> {}, ltype |-> "int", label |-> l ]

HasLabel(ln) == "actual_status" \notin ln.missing

StatusValue(ln) == IF HasLabel(ln) THEN ln.label ELSE NaN

\* df.columns of pd.DataFrame(list of dicts): the union of the keys
Columns(lines) ==
  { c \in Range(required_cols) : \E i \in DOMAIN lines : c \notin lines[i].missing }

MissingColumns(lines) ==
  SelectSeq(required_cols, LAMBDA c : c \notin Columns(lines))

\* pd.api.types.is_numeric_dtype(df['actual_status']): a string anywhere in
\* the column makes it an object column; absent values become NaN in a
\* float column
is_numeric_dtype(lines) ==
  \A i \in DOMAIN lines : HasLabel(lines[i]) => lines[i].ltype = "int"

\* unique_statuses over the labels that are present only (dropna)
unique_statuses_dropna(lines) ==
  { StatusValue(lines[i]) : i \in DOMAIN lines } \ { NaN }

unique_statuses(lines) == { StatusValue(lines[i]) : i \in DOMAIN lines }

CountLabel(lines, l) ==
  Cardinality({ i \in DOMAIN lines : StatusValue(lines[i]) = l })

\* class_ratio without normalize=True: the counts themselves
class_ratio_unnormalized(lines) ==
  [ l \in unique_statuses(lines) \ {NaN} |-> << CountLabel(lines, l), 1 >> ]

\* value_counts(normalize=True).to_dict(): label -> <<count, total>>, the
\* fraction count / total, over the labels that occur
class_ratio(lines) ==
  [ l \in unique_statuses(lines) \ {NaN} |->
      << CountLabel(lines, l),
         Cardinality({ i \in DOMAIN lines : HasLabel(lines[i]) }) >> ]

\* Imbalanced with <= in place of <
Imbalanced_NonStrict(ratio) ==
  /\ Cardinality(DOMAIN ratio) = 2
  /\ \E l \in DOMAIN ratio :
       /\ \A m \in DOMAIN ratio : ratio[l][1] <= ratio[m][1]
       /\ ratio[l][1] * imbalance_den <= ratio[l][2]

\* min(class_ratio.values()) < imbalance_threshold, in exact arithmetic
Imbalanced(ratio) ==
  /\ Cardinality(DOMAIN ratio) = 2
  /\ \E l \in DOMAIN ratio :
       /\ \A m \in DOMAIN ratio : ratio[l][1] <= ratio[m][1]
       /\ ratio[l][1] * imbalance_den < ratio[l][2]

\* drop_duplicates that keeps every row
drop_duplicates_keep_all(lines) == lines

\* the values of the columns drop_duplicates compares (absent ones are NaN,
\* and NaN equals NaN there)
RawTuple(ln) == << ln.key, ln.missing \ {"actual_status"} >>

\* df.drop_duplicates(subset=required_cols[:-1]): the first row of each
\* group of equal raw tuples is kept, in order
drop_duplicates(lines) ==
  LET keep(i) == \A j \in 1..(i - 1) : RawTuple(lines[j]) # RawTuple(lines[i])
      rows == SelectSeq([ i \in DOMAIN lines |-> << i, lines[i] >> ],
                        LAMBDA r : keep(r[1]))
  IN [ k \in DOMAIN rows |-> rows[k][2] ]

Err(exc, kind, info) == [ ok |-> FALSE, exc |-> exc, kind |-> kind, info |-> info ]
Ok == [ ok |-> TRUE, exc |-> "", kind |-> "", info |-> << >> ]

\* ValidateFeedback with the minimum-volume gate ahead of the label gates
ValidateFeedback_VolumeFirst(file) ==
  IF ~file.exists THEN Err("FileNotFoundError", "NoFeedbackFile", << >>)
  ELSE LET lines == file.lines IN
    IF Len(lines) = 0 THEN Err("ValueError", "LoadFailed", << "EmptyFile" >>)
    ELSE IF \E i \in DOMAIN lines : ~lines[i].json
      THEN Err("ValueError", "JSONParse", << >>)
    ELSE IF MissingColumns(lines) # << >>
      THEN Err("ValueError", "MissingColumns", MissingColumns(lines))
    ELSE IF Len(lines) < min_samples
      THEN Err("ValueError", "InsufficientData", << min_samples, Len(lines) >>)
    ELSE IF ~is_numeric_dtype(lines)
      THEN Err("ValueError", "NonNumericLabel", << >>)
    ELSE IF ~(unique_statuses(lines) \subseteq {0, 1})
      THEN Err("ValueError", "InvalidLabel", << >>)
    ELSE IF Imbalanced(class_ratio(lines))
      THEN Err("ValueError", "ClassImbalance", << >>)
    ELSE IF Len(drop_duplicates(lines)) < min_samples
      THEN Err("ValueError", "TooFewAfterDedup", << >>)
    ELSE Ok

\* ValidateFeedback without the count after drop_duplicates (step 7)
ValidateFeedback_NoDedupGate(file) ==
  IF ~file.exists THEN Err("FileNotFoundError", "NoFeedbackFile", << >>)
  ELSE LET lines == file.lines IN
    IF Len(lines) = 0 THEN Err("ValueError", "LoadFailed", << "EmptyFile" >>)
    ELSE IF \E i \in DOMAIN lines : ~lines[i].json
      THEN Err("ValueError", "JSONParse", << >>)
    ELSE IF MissingColumns(lines) # << >>
      THEN Err("ValueError", "MissingColumns", MissingColumns(lines))
    ELSE IF ~is_numeric_dtype(lines)
      THEN Err("ValueError", "NonNumericLabel", << >>)
    ELSE IF ~(unique_statuses(lines) \subseteq {0, 1})
      THEN Err("ValueError", "InvalidLabel", << >>)
    ELSE IF Len(lines) < min_samples
      THEN Err("ValueError", "InsufficientData", << min_samples, Len(lines) >>)
    ELSE IF Imbalanced(class_ratio(lines))
      THEN Err("ValueError", "ClassImbalance", << >>)
    ELSE Ok

\* steps 1-7 of retrain_model_from_feedback: the first gate that fails
\* decides the exception; the empty-file ValueError is raised inside the
\* try block and re-raised by its `except Exception` as a load failure
ValidateFeedback(file) ==
  IF ~file.exists THEN Err("FileNotFoundError", "NoFeedbackFile", << >>)
  ELSE LET lines == file.lines IN
    IF Len(lines) = 0 THEN Err("ValueError", "LoadFailed", << "EmptyFile" >>)
    ELSE IF \E i \in DOMAIN lines : ~lines[i].json
      THEN Err("ValueError", "JSONParse", << >>)
    ELSE IF MissingColumns(lines) # << >>
      THEN Err("ValueError", "MissingColumns", MissingColumns(lines))
    ELSE IF ~is_numeric_dtype(lines)
      THEN Err("ValueError", "NonNumericLabel", << >>)
    ELSE IF ~(unique_statuses(lines) \subseteq {0, 1})
      THEN Err("ValueError", "InvalidLabel", << >>)
    ELSE IF Len(lines) < min_samples
      THEN Err("ValueError", "InsufficientData", << min_samples, Len(lines) >>)
    ELSE IF Imbalanced(class_ratio(lines))
      THEN Err("ValueError", "ClassImbalance", << >>)
    ELSE IF Len(drop_duplicates(lines)) < min_samples
      THEN Err("ValueError", "TooFewAfterDedup", << >>)
    ELSE Ok

\* ------------------------------------------------------------------------
\* Persisted artifacts and the module-level cache
\* ------------------------------------------------------------------------
\* an artifact file holds: ver, the request whose fit or dump produced it;
\* cols, the ordered column list; rows, the number of rows (fitted rows of
\* the model, rows of the background sample, 0 for the schema)
Artifact(v, cols, rows) ==
  [ exists |-> TRUE, ver |-> v, cols |-> cols, rows |-> rows ]

NoArtifact == [ exists |-> FALSE, ver |-> 0, cols |-> << >>, rows |-> 0 ]

\* the value None of _model, _feature_names, _background_data
None == NoArtifact

NoFeedbackFile == [ exists |-> FALSE, lines |-> << >> ]

FeedbackFile(lines) == [ exists |-> TRUE, lines |-> lines ]

\* Min that returns the larger argument
Min_larger(a, b) == IF a <= b THEN b ELSE a

Min(a, b) == IF a <= b THEN a ELSE b

\* ------------------------------------------------------------------------
\* State
\* ------------------------------------------------------------------------
VARIABLES
  model_file,             \* ENSEMBLE_MODEL_PATH
  schema_file,            \* FEATURE_NAMES_PATH
  bg_file,                \* BACKGROUND_DATA_PATH
  feedback_file,          \* FEEDBACK_PATH (feedback.jsonl)
  feedback_db,            \* rows of the FeedbackDB table
  cache_model,            \* utils._model
  cache_feature_names,    \* utils._feature_names
  cache_background_data,  \* utils._background_data
  call,                   \* the codec call under observation
  pc,                     \* position of each request thread
  req,                    \* the request a thread is serving
  loc,                    \* the locals of the handler it runs
  resp,                   \* what the handler returned or raised
  nreq,                   \* requests started so far
  commits                 \* history: the triple on disk each time a train
                          \* or retrain returned successfully

vars ==
  << model_file, schema_file, bg_file, feedback_file, feedback_db,
     cache_model, cache_feature_names, cache_background_data,
     call, pc, req, loc, resp, nreq, commits >>

files == << model_file, schema_file, bg_file >>
cache == << cache_model, cache_feature_names, cache_background_data >>

Procs == 1..NProcs

Roles == { "admin", "analyst", "user" }

\* a feedback submission: the raw fields (key) and the observed label
FeedbackInputs == { Line(7, l) : l \in {0, 1} }

\* ------------------------------------------------------------------------
\* Users and JSON Web Tokens (shared/auth.py)
\* ------------------------------------------------------------------------
\* the users table: id -> role, is_active
Users ==
  << [ role |-> "admin", is_active |-> TRUE ],
     [ role |-> "analyst", is_active |-> TRUE ],
     [ role |-> "user", is_active |-> TRUE ],
     [ role |-> "admin", is_active |-> FALSE ] >>

\* the id of a user whose row has been deleted since the token was issued
DeletedUser == Len(Users) + 1

\* payload.get("sub") of a payload without the key
NoSub == 0

\* a token as the service sees it: decodes, jwt.decode(token, SECRET_KEY)
\* returns the payload (the signature verifies and exp has not passed);
\* type and sub, the claims of the payload
Token(decodes, type, sub) ==
  [ decodes |-> decodes, type |-> type, sub |-> sub ]

\* a request that carries no bearer token of its own
NoToken == Token(FALSE, "none", NoSub)

\* to_encode.update({"exp": expire, "type": "access"}); jwt.encode
create_access_token(sub) == Token(TRUE, "access", sub)

\* to_encode.update({"exp": expire, "type": "refresh"}); jwt.encode
create_refresh_token(sub) == Token(TRUE, "refresh", sub)

\* the tokens a client can present: those login and refresh have issued to
\* a user, the same after their exp has passed or with a signature that
\* does not verify, and a signed payload without "sub"
Tokens ==
  { Token(d, ty, sub) : d \in BOOLEAN, ty \in { "access", "refresh" },
                        sub \in 1..DeletedUser }
  \cup { Token(TRUE, ty, NoSub) : ty \in { "access", "refresh" } }

Unauthorized(kind) ==
  [ ok |-> FALSE, code |-> 401, kind |-> kind, user |-> NoSub ]

Forbidden(kind) ==
  [ ok |-> FALSE, code |-> 403, kind |-> kind, user |-> NoSub ]

Authenticated(user) ==
  [ ok |-> TRUE, code |-> 200, kind |-> "", user |-> user ]

\* verify_token without the comparison of payload["type"]
verify_token_any_type(token, token_type) ==
  IF ~token.decodes THEN Unauthorized("InvalidToken")
  ELSE Authenticated(token.sub)

\* verify_token: JWTError -> 401; payload.get("type") != token_type -> 401;
\* else the payload (its sub)
verify_token(token, token_type) ==
  IF ~token.decodes THEN Unauthorized("InvalidToken")
  ELSE IF token.type # token_type THEN Unauthorized("WrongTokenType")
  ELSE Authenticated(token.sub)

\* get_current_user: verify_token(token, "access"); no sub -> 401; no such
\* user -> 401; user.is_active false -> 403; else the user
get_current_user(token) ==
  LET payload == verify_token(token, "access") IN
    IF ~payload.ok THEN payload
    ELSE IF payload.user = NoSub THEN Unauthorized("InvalidToken")
    ELSE IF payload.user \notin DOMAIN Users THEN Unauthorized("UserNotFound")
    ELSE IF ~Users[payload.user].is_active THEN Forbidden("Deactivated")
    ELSE payload

\* refresh_token_endpoint: verify_token(token, "refresh"); no sub -> 401;
\* no such user or not active -> 401; else new tokens for the user
refresh_token_endpoint(token) ==
  LET payload == verify_token(token, "refresh") IN
    IF ~payload.ok THEN payload
    ELSE IF payload.user = NoSub THEN Unauthorized("InvalidToken")
    ELSE IF payload.user \notin DOMAIN Users
            \/ ~Users[payload.user].is_active
      THEN Unauthorized("UserNotFoundOrDeactivated")
    ELSE payload

NoReq ==
  [ kind |-> "none", role |-> "none", id |-> 0, fb |-> Line(0, 0),
    token |-> NoToken ]

\* an accuracy is recorded by what it was computed from: the estimator that
\* predicted and the feature matrix (with its labels) it predicted on
Score(model, X) == [ model |-> model, X |-> X ]

NoScore == Score(NoArtifact, NoArtifact)

NoLoc ==
  [ df_clean |-> << >>,       \* rows left after drop_duplicates
    class_ratio |-> << >>,    \* class_ratio of the validated frame
    X |-> NoArtifact,         \* feature matrix: its columns and row count
    model |-> NoArtifact,     \* the estimator object in hand
    triple |-> << None, None, None >>,  \* what _load_model returned
    wrote |-> {},             \* history: artifacts this call has dumped
    loaded_model |-> FALSE,   \* history: the call reached joblib.load / fit
    accuracy |-> NoScore,     \* accuracy_score(y, model.predict(X))
    seen_db |-> 0,            \* history: Len(feedback_db) at the call
    n0 |-> 0 ]                \* history: Len(commits) at the call

NoResp ==
  [ code |-> 0, err |-> Ok, keys |-> {}, samples_used |-> 0,
    class_balance |-> << >>, accuracy_on_feedback |-> NoScore, id |-> 0,
    served |-> << None, None, None >> ]

\* a call of the codec: fn, the function; in, the frame it is given;
\* schema, feature_names.pkl at the call; vec, the frame as it enters the
\* alignment; out, the result; n, first_schema and first_out, history: the
\* calls made on this record, the schema and the result of the first one
NoCall ==
  [ fn |-> "none", in |-> << >>, schema |-> NoArtifact, vec |-> << >>,
    out |-> Frame(<< >>), n |-> 0, first_schema |-> NoArtifact,
    first_out |-> Frame(<< >>) ]

\* ------------------------------------------------------------------------
\* Responses
\* ------------------------------------------------------------------------
\* retrain_api: ValueError -> 400 with the message, any other exception ->
\* 500, a result -> 200 (main.py 895-931)
RetrainApiResponse(r) ==
  IF r.err.ok THEN [ r EXCEPT !.code = 200 ]
  ELSE IF r.err.exc = "ValueError" THEN [ r EXCEPT !.code = 400 ]
  ELSE [ r EXCEPT !.code = 500 ]

\* a handler without a try block: an exception that leaves it becomes the
\* framework's 500 response (train_final_api, predict_api); explain_api
\* turns every exception into HTTPException(500) itself
UnhandledResponse(r) ==
  IF r.err.ok THEN [ r EXCEPT !.code = 200 ] ELSE [ r EXCEPT !.code = 500 ]

\* what the caller of the handler of request q gets for the outcome r of the
\* service function; a direct call of retrain_model_from_feedback() gets
\* the result or the exception itself (code 0)
Respond(q, r) ==
  IF q.kind = "retrain_api" THEN RetrainApiResponse(r)
  ELSE IF q.kind = "retrain" THEN r
  ELSE UnhandledResponse(r)

Raise(exc, kind, info) == [ NoResp EXCEPT !.err = Err(exc, kind, info) ]

\* the call expression retrain_model_from_feedback(<nargs arguments>):
\* Python raises TypeError before the body runs unless the number of
\* positional arguments is the number of parameters
CallRetrain(nargs) ==
  IF nargs = retrain_params THEN Ok
  ELSE Err("TypeError", "PositionalArguments", << retrain_params, nargs >>)

\* require_role that lets every role through
require_role_any(allowed, role) == Ok

\* require_role(allowed): 403 unless the user's role is allowed
require_role(allowed, role) ==
  IF role \in allowed THEN Ok
  ELSE Err("HTTPException", "Forbidden", << >>)

Finish(p, r) ==
  /\ pc' = [ pc EXCEPT ![p] = "done" ]
  /\ resp' = [ resp EXCEPT ![p] = Respond(req[p], r) ]

Snapshot == [ NoLoc EXCEPT !.n0 = Len(commits) ]

SnapshotRetrain == [ NoLoc EXCEPT !.seen_db = Len(feedback_db) ]

Start(p, kind, role, fb) ==
  /\ pc[p] = "idle"
  /\ nreq < MaxReqs
  /\ nreq' = nreq + 1
  /\ req' = [ req EXCEPT ![p] = [ kind |-> kind, role |-> role,
                                  id |-> nreq + 1, fb |-> fb,
                                  token |-> NoToken ] ]
  /\ loc' = [ loc EXCEPT ![p] = Snapshot ]

\* ------------------------------------------------------------------------
\* POST /train-final: train_final_api -> train_ensemble_model
\* ------------------------------------------------------------------------
\* require_role(["admin"]); X, y = preprocess_data(df); the emptiness and
\* length checks of train_ensemble_model; model.fit(X, y)
TrainFinalApi(p, role, token) ==
  \E fit_ok \in BOOLEAN :
    /\ pc[p] = "idle"
    /\ nreq < MaxReqs
    /\ nreq' = nreq + 1
    /\ req' = [ req EXCEPT ![p] = [ kind |-> "train", role |-> role,
                                    id |-> nreq + 1, fb |-> Line(0, 0),
                                    token |-> token ] ]
    /\ LET a == require_role({"admin"}, role)
           X == Artifact(nreq + 1, CodecColumns, DatasetRows)
       IN IF ~a.ok
          THEN /\ pc' = [ pc EXCEPT ![p] = "done" ]
               /\ resp' = [ resp EXCEPT ![p] = [ NoResp EXCEPT !.code = 403,
                                                               !.err = a ] ]
               /\ loc' = [ loc EXCEPT ![p] = NoLoc ]
          ELSE IF X.rows = 0
          THEN /\ pc' = [ pc EXCEPT ![p] = "done" ]
               /\ resp' = [ resp EXCEPT ![p] =
                   UnhandledResponse(Raise("ValueError", "EmptyX", << >>)) ]
               /\ loc' = [ loc EXCEPT ![p] = NoLoc ]
          ELSE IF ~fit_ok
          THEN /\ pc' = [ pc EXCEPT ![p] = "done" ]
               /\ resp' = [ resp EXCEPT ![p] =
                   UnhandledResponse(Raise("Exception", "FitError", << >>)) ]
               /\ loc' = [ loc EXCEPT ![p] =
                             [ NoLoc EXCEPT !.loaded_model = TRUE ] ]
          ELSE /\ pc' = [ pc EXCEPT ![p] = "t_dump_model" ]
               /\ resp' = resp
               /\ loc' = [ loc EXCEPT ![p] =
                             [ NoLoc EXCEPT !.X = X, !.model = X,
                                               !.loaded_model = TRUE ] ]
    /\ UNCHANGED << files, feedback_file, call, feedback_db, cache, commits >>

\* a train request of a user whom get_current_user has authenticated, of
\* any role
BeginTrain(p) ==
  \E role \in Roles : TrainFinalApi(p, role, NoToken)

\* joblib.dump(model, ENSEMBLE_MODEL_PATH)
TrainDumpModel(p) ==
  /\ pc[p] = "t_dump_model"
  /\ \E io_ok \in BOOLEAN :
       IF io_ok
       THEN /\ model_file' = loc[p].model
            /\ loc' = [ loc EXCEPT ![p].wrote = @ \cup {"model"} ]
            /\ pc' = [ pc EXCEPT ![p] = "t_dump_schema" ]
            /\ resp' = resp
       ELSE /\ Finish(p, Raise("OSError", "ArtifactIOError", << "model" >>))
            /\ UNCHANGED << model_file, loc >>
  /\ UNCHANGED << schema_file, bg_file, feedback_file, call, feedback_db, cache,
                  req, nreq, commits >>

\* TrainDumpSchema dumping the columns of the frame before encoding
TrainDumpSchema_raw_columns(p) ==
  /\ pc[p] = "t_dump_schema"
  /\ \E io_ok \in BOOLEAN :
       IF io_ok
       THEN /\ schema_file' =
                 Artifact(req[p].id, [ i \in DOMAIN raw_cols |-> << raw_cols[i] >> ], 0)
            /\ loc' = [ loc EXCEPT ![p].wrote = @ \cup {"schema"} ]
            /\ pc' = [ pc EXCEPT ![p] = "t_dump_bg" ]
            /\ resp' = resp
       ELSE /\ Finish(p, Raise("OSError", "ArtifactIOError", << "schema" >>))
            /\ UNCHANGED << schema_file, loc >>
  /\ UNCHANGED << model_file, bg_file, feedback_file, call, feedback_db, cache,
                  req, nreq, commits >>

\* joblib.dump(X.columns.tolist(), FEATURE_NAMES_PATH)
TrainDumpSchema(p) ==
  /\ pc[p] = "t_dump_schema"
  /\ \E io_ok \in BOOLEAN :
       IF io_ok
       THEN /\ schema_file' = Artifact(req[p].id, loc[p].X.cols, 0)
            /\ loc' = [ loc EXCEPT ![p].wrote = @ \cup {"schema"} ]
            /\ pc' = [ pc EXCEPT ![p] = "t_dump_bg" ]
            /\ resp' = resp
       ELSE /\ Finish(p, Raise("OSError", "ArtifactIOError", << "schema" >>))
            /\ UNCHANGED << schema_file, loc >>
  /\ UNCHANGED << model_file, bg_file, feedback_file, call, feedback_db, cache,
                  req, nreq, commits >>

\* background_data = X.sample(min(100, len(X))); joblib.dump; model.score;
\* return
TrainDumpBackground(p) ==
  /\ pc[p] = "t_dump_bg"
  /\ \E io_ok \in BOOLEAN :
       IF io_ok
       THEN /\ bg_file' = Artifact(req[p].id, loc[p].X.cols,
                                   Min(background_rows, loc[p].X.rows))
            /\ loc' = [ loc EXCEPT ![p].wrote = @ \cup {"background"} ]
            /\ commits' = Append(commits, << model_file, schema_file, bg_file' >>)
            /\ Finish(p, [ NoResp EXCEPT !.keys = { "model", "accuracy" },
                                         !.id = req[p].id ])
       ELSE /\ Finish(p, Raise("OSError", "ArtifactIOError", << "background" >>))
            /\ UNCHANGED << bg_file, loc, commits >>
  /\ UNCHANGED << model_file, schema_file, feedback_file, call, feedback_db, cache,
                  req, nreq >>

\* ------------------------------------------------------------------------
\* retrain_model_from_feedback, called by retrain_api (POST /retrain) with
\* the db session, and called directly without arguments
\* ------------------------------------------------------------------------
\* the call and steps 1-8 of the body: read feedback.jsonl, the validation
\* gates, drop_duplicates.  r is the result so far: the exception of the
\* call or of the first failing gate, or Ok
RetrainEntry(nargs) ==
  LET c == CallRetrain(nargs) IN
    IF ~c.ok THEN c ELSE ValidateFeedback(feedback_file)

BeginRetrainCall(p, kind, role, allowed, nargs, token) ==
  /\ pc[p] = "idle"
  /\ nreq < MaxReqs
  /\ nreq' = nreq + 1
  /\ req' = [ req EXCEPT ![p] = [ kind |-> kind, role |-> role,
                                  id |-> nreq + 1, fb |-> Line(0, 0),
                                  token |-> token ] ]
  /\ LET a == require_role(allowed, role)
         r == RetrainEntry(nargs)
         q == [ kind |-> kind ]
     IN IF ~a.ok
        THEN /\ pc' = [ pc EXCEPT ![p] = "done" ]
             /\ resp' = [ resp EXCEPT ![p] = [ NoResp EXCEPT !.code = 403,
                                                             !.err = a ] ]
             /\ loc' = [ loc EXCEPT ![p] = SnapshotRetrain ]
        ELSE IF ~r.ok
        THEN /\ pc' = [ pc EXCEPT ![p] = "done" ]
             /\ resp' = [ resp EXCEPT ![p] =
                            Respond(q, [ NoResp EXCEPT !.err = r ]) ]
             /\ loc' = [ loc EXCEPT ![p] = SnapshotRetrain ]
        ELSE /\ pc' = [ pc EXCEPT ![p] = "r_preprocess" ]
             /\ resp' = resp
             /\ loc' = [ loc EXCEPT ![p] =
                  [ SnapshotRetrain EXCEPT
                      !.df_clean = drop_duplicates(feedback_file.lines),
                      !.class_ratio = class_ratio(feedback_file.lines) ] ]
  /\ UNCHANGED << files, feedback_file, call, feedback_db, cache, commits >>

\* POST /retrain: require_role(["admin", "analyst"]), then
\* retrain_model_from_feedback(db)
BeginRetrainApi(p) ==
  \E role \in Roles :
    BeginRetrainCall(p, "retrain_api", role, {"admin", "analyst"},
                     retrain_api_args, NoToken)

\* retrain_model_from_feedback(), as check_and_retrain calls it
BeginRetrain(p) ==
  BeginRetrainCall(p, "retrain", "none", {"none"}, 0, NoToken)

\* step 9: preprocess_data_for_prediction on each row; it aligns the row to
\* feature_names.pkl when that file exists, else keeps the codec's columns
RetrainPreprocess(p) ==
  /\ pc[p] = "r_preprocess"
  /\ loc' = [ loc EXCEPT ![p].X =
                Artifact(req[p].id,
                         IF schema_file.exists THEN schema_file.cols
                                               ELSE CodecColumns,
                         Len(loc[p].df_clean)) ]
  /\ pc' = [ pc EXCEPT ![p] = "r_align" ]
  /\ UNCHANGED << files, feedback_file, call, feedback_db, cache, req, resp, nreq,
                  commits >>

\* RetrainAlign that dumps the columns of X as the schema on every pass
RetrainAlign_Regenerate(p) ==
  /\ pc[p] = "r_align"
  /\ \E io_ok \in BOOLEAN :
       IF io_ok
       THEN /\ schema_file' = Artifact(req[p].id, loc[p].X.cols, 0)
            /\ loc' = [ loc EXCEPT ![p].wrote = @ \cup {"schema"} ]
            /\ pc' = [ pc EXCEPT ![p] = "r_load_model" ]
            /\ resp' = resp
       ELSE /\ Finish(p, Raise("OSError", "ArtifactIOError", << "schema" >>))
            /\ UNCHANGED << schema_file, loc >>
  /\ UNCHANGED << model_file, bg_file, feedback_file, call, feedback_db, cache,
                  req, nreq, commits >>

\* step 10: load the expected features, or dump the columns of X as the
\* new feature_names.pkl; then X = X[expected_features]
RetrainAlign(p) ==
  /\ pc[p] = "r_align"
  /\ IF schema_file.exists
     THEN /\ loc' = [ loc EXCEPT ![p].X.cols = schema_file.cols ]
          /\ pc' = [ pc EXCEPT ![p] = "r_load_model" ]
          /\ UNCHANGED << schema_file, resp >>
     ELSE \E io_ok \in BOOLEAN :
            IF io_ok
            THEN /\ schema_file' = Artifact(req[p].id, loc[p].X.cols, 0)
                 /\ loc' = [ loc EXCEPT ![p].wrote = @ \cup {"schema"} ]
                 /\ pc' = [ pc EXCEPT ![p] = "r_load_model" ]
                 /\ resp' = resp
            ELSE /\ Finish(p, Raise("OSError", "ArtifactIOError", << "schema" >>))
                 /\ UNCHANGED << schema_file, loc >>
  /\ UNCHANGED << model_file, bg_file, feedback_file, call, feedback_db, cache,
                  req, nreq, commits >>

\* RetrainLoadAndFit that scores the estimator as it was loaded, before fit
RetrainLoadAndFit_scores_before_fit(p) ==
  /\ pc[p] = "r_load_model"
  /\ loc' = [ loc EXCEPT
                ![p].model = Artifact(req[p].id, loc[p].X.cols, loc[p].X.rows),
                ![p].accuracy = Score(model_file, loc[p].X),
                ![p].loaded_model = TRUE ]
  /\ pc' = [ pc EXCEPT ![p] = "r_dump_model" ]
  /\ UNCHANGED << files, feedback_file, call, feedback_db, cache, req, resp,
                  nreq, commits >>

\* step 11: joblib.load(ENSEMBLE_MODEL_PATH) if it exists, else a new
\* VotingClassifier; steps 12-13: model.fit(X, y) re-fits every estimator
\* of the object in hand; predict; accuracy
RetrainLoadAndFit(p) ==
  /\ pc[p] = "r_load_model"
  /\ \E fit_ok \in BOOLEAN :
       IF fit_ok
       THEN /\ loc' = [ loc EXCEPT
                          ![p].model = Artifact(req[p].id, loc[p].X.cols,
                                                loc[p].X.rows),
                          ![p].accuracy =
                            Score(Artifact(req[p].id, loc[p].X.cols,
                                           loc[p].X.rows), loc[p].X),
                          ![p].loaded_model = TRUE ]
            /\ pc' = [ pc EXCEPT ![p] = "r_dump_model" ]
            /\ resp' = resp
       ELSE /\ Finish(p, Raise("Exception", "FitError", << >>))
            /\ loc' = [ loc EXCEPT ![p].model = model_file,
                                   ![p].loaded_model = TRUE ]
  /\ UNCHANGED << files, feedback_file, call, feedback_db, cache, req, nreq, commits >>

\* step 14, first dump: joblib.dump(model, ENSEMBLE_MODEL_PATH)
RetrainDumpModel(p) ==
  /\ pc[p] = "r_dump_model"
  /\ \E io_ok \in BOOLEAN :
       IF io_ok
       THEN /\ model_file' = loc[p].model
            /\ loc' = [ loc EXCEPT ![p].wrote = @ \cup {"model"} ]
            /\ pc' = [ pc EXCEPT ![p] = "r_dump_bg" ]
            /\ resp' = resp
       ELSE /\ Finish(p, Raise("OSError", "ArtifactIOError", << "model" >>))
            /\ UNCHANGED << model_file, loc >>
  /\ UNCHANGED << schema_file, bg_file, feedback_file, call, feedback_db, cache,
                  req, nreq, commits >>

\* step 14, second dump: X.sample(min(100, len(X))) to BACKGROUND_DATA_PATH;
\* step 15: the result
RetrainDumpBackground(p) ==
  /\ pc[p] = "r_dump_bg"
  /\ \E io_ok \in BOOLEAN :
       IF io_ok
       THEN /\ bg_file' = Artifact(req[p].id, loc[p].X.cols,
                                   Min(background_rows, loc[p].X.rows))
            /\ loc' = [ loc EXCEPT ![p].wrote = @ \cup {"background"} ]
            /\ commits' = Append(commits, << model_file, schema_file, bg_file' >>)
            /\ Finish(p, [ NoResp EXCEPT
                             !.keys = { "status", "samples_used", "model_path",
                                        "accuracy_on_feedback", "class_balance" },
                             !.samples_used = loc[p].X.rows,
                             !.class_balance = loc[p].class_ratio,
                             !.accuracy_on_feedback = loc[p].accuracy,
                             !.id = req[p].id ])
       ELSE /\ Finish(p, Raise("OSError", "ArtifactIOError", << "background" >>))
            /\ UNCHANGED << bg_file, loc, commits >>
  /\ UNCHANGED << model_file, schema_file, feedback_file, call, feedback_db, cache,
                  req, nreq >>

\* ------------------------------------------------------------------------
\* predict_loan_status / explain_prediction and _load_model
\* ------------------------------------------------------------------------
\* the handler's dependencies, then _load_model: `if _model is None`.
\* These handlers read the user only to log it: the role of a request that
\* passed require_role is not kept
BeginInference(p, kind, role, allowed) ==
  /\ Start(p, kind, IF role \in allowed THEN "any" ELSE role, Line(0, 0))
  /\ LET a == require_role(allowed, role) IN
       IF a.ok
       THEN /\ pc' = [ pc EXCEPT ![p] = IF cache_model = None
                                        THEN "i_load_model" ELSE "i_return" ]
            /\ resp' = resp
       ELSE /\ pc' = [ pc EXCEPT ![p] = "done" ]
            /\ resp' = [ resp EXCEPT ![p] = [ NoResp EXCEPT !.code = 403,
                                                            !.err = a ] ]
  /\ UNCHANGED << files, feedback_file, call, feedback_db, cache, commits >>

\* POST /predict: predict_api depends on get_current_user only and never
\* reads the role
BeginPredict(p) ==
  BeginInference(p, "predict", "any", {"any"})

\* POST /explain: require_role(["analyst", "admin", "user"])
BeginExplain(p) ==
  \E role \in Roles :
    BeginInference(p, "explain", role, {"analyst", "admin", "user"})

LoadFailed(p, what) ==
  Finish(p, Raise("ValueError", "LoadFailed", << "FileNotFoundError", what >>))

\* _model = joblib.load(ENSEMBLE_MODEL_PATH)
LoadModel(p) ==
  /\ pc[p] = "i_load_model"
  /\ IF model_file.exists
     THEN /\ cache_model' = model_file
          /\ pc' = [ pc EXCEPT ![p] = "i_load_schema" ]
          /\ resp' = resp
     ELSE /\ LoadFailed(p, "model")
          /\ UNCHANGED cache_model
  /\ UNCHANGED << files, feedback_file, call, feedback_db, cache_feature_names,
                  cache_background_data, req, loc, nreq, commits >>

\* _feature_names = joblib.load(FEATURE_NAMES_PATH)
LoadSchema(p) ==
  /\ pc[p] = "i_load_schema"
  /\ IF schema_file.exists
     THEN /\ cache_feature_names' = schema_file
          /\ pc' = [ pc EXCEPT ![p] = "i_load_bg" ]
          /\ resp' = resp
     ELSE /\ LoadFailed(p, "schema")
          /\ UNCHANGED cache_feature_names
  /\ UNCHANGED << files, feedback_file, call, feedback_db, cache_model,
                  cache_background_data, req, loc, nreq, commits >>

\* _background_data = joblib.load(BACKGROUND_DATA_PATH)
LoadBackground(p) ==
  /\ pc[p] = "i_load_bg"
  /\ IF bg_file.exists
     THEN /\ cache_background_data' = bg_file
          /\ pc' = [ pc EXCEPT ![p] = "i_return" ]
          /\ resp' = resp
     ELSE /\ LoadFailed(p, "background")
          /\ UNCHANGED cache_background_data
  /\ UNCHANGED << files, feedback_file, call, feedback_db, cache_model,
                  cache_feature_names, req, loc, nreq, commits >>

\* return _model, _feature_names, _background_data
LoadReturn(p) ==
  /\ pc[p] = "i_return"
  /\ loc' = [ loc EXCEPT ![p].triple = cache ]
  /\ pc' = [ pc EXCEPT ![p] = "i_preprocess" ]
  /\ UNCHANGED << files, feedback_file, call, feedback_db, cache, req, resp, nreq,
                  commits >>

\* Infer whose preprocess_data_for_prediction dumps the columns it used
\* when feature_names.pkl is missing, the way step 10 of the retrain does
Infer_dumps_schema(p) ==
  /\ pc[p] = "i_preprocess"
  /\ schema_file' = IF schema_file.exists THEN schema_file
                    ELSE Artifact(req[p].id, CodecColumns, 0)
  /\ Finish(p, Raise("ValueError", "KeyError", << >>))
  /\ UNCHANGED << model_file, bg_file, feedback_file, call, feedback_db, cache,
                  req, loc, nreq, commits >>

\* preprocess_data_for_prediction (aligns to the schema on disk), the
\* selection input_processed[feature_names] by the cached names, and
\* model.predict / the SHAP explainer over the cached background sample
Infer(p) ==
  /\ pc[p] = "i_preprocess"
  /\ LET aligned == IF schema_file.exists THEN schema_file.cols ELSE CodecColumns
         m == loc[p].triple[1]
         names == loc[p].triple[2]
         bg == loc[p].triple[3]
     IN IF names = None \/ ~(Range(names.cols) \subseteq Range(aligned))
        THEN Finish(p, Raise("ValueError", "KeyError", << >>))
        ELSE IF names.cols # m.cols
        THEN Finish(p, Raise("ValueError", "FeatureNamesMismatch", << >>))
        ELSE IF req[p].kind = "explain" /\ bg = None
        THEN Finish(p, Raise("ValueError", "NoBackground", << >>))
        ELSE Finish(p, [ NoResp EXCEPT
                           !.keys = { "prediction", "probability_repaid",
                                      "probability_default" },
                           !.served = loc[p].triple, !.id = req[p].id ])
  /\ UNCHANGED << files, feedback_file, call, feedback_db, cache, req, loc, nreq,
                  commits >>

\* ------------------------------------------------------------------------
\* POST /feedback: feedback_api
\* ------------------------------------------------------------------------
\* db.add(feedback); db.commit(); on an exception db.rollback() and 500
BeginFeedback(p) ==
  \E fb \in FeedbackInputs, db_ok \in BOOLEAN :
    /\ Start(p, "feedback", "any", fb)
    /\ pc' = [ pc EXCEPT ![p] = "done" ]
    /\ IF db_ok
       THEN /\ feedback_db' = Append(feedback_db, fb)
            /\ resp' = [ resp EXCEPT ![p] =
                 [ NoResp EXCEPT !.code = 200, !.keys = { "status", "id" },
                                 !.id = Len(feedback_db) + 1 ] ]
       ELSE /\ feedback_db' = feedback_db
            /\ resp' = [ resp EXCEPT ![p] =
                 [ NoResp EXCEPT !.code = 500,
                                 !.err = Err("Exception", "DBError", << >>) ] ]
    /\ UNCHANGED << files, feedback_file, call, cache, commits >>

\* ------------------------------------------------------------------------
\* GET /compare: compare_models_api -> compare_models
\* ------------------------------------------------------------------------
\* require_role(["analyst", "admin"]); X, y = preprocess_data(df.copy());
\* compare_models fits fresh estimators on a split of X in memory (a fit
\* that raises is logged and skipped) and returns their scores
BeginCompare(p) ==
  \E role \in Roles :
    /\ Start(p, "compare", role, Line(0, 0))
    /\ pc' = [ pc EXCEPT ![p] = "done" ]
    /\ LET a == require_role({"analyst", "admin"}, role) IN
         resp' = [ resp EXCEPT ![p] =
           IF ~a.ok THEN [ NoResp EXCEPT !.code = 403, !.err = a ]
           ELSE IF DatasetRows = 0
             THEN UnhandledResponse(Raise("ValueError", "EmptyX", << >>))
           ELSE [ NoResp EXCEPT !.code = 200, !.keys = { "models" },
                                !.id = nreq + 1 ] ]
    /\ UNCHANGED << files, feedback_file, call, feedback_db, cache, commits >>

\* the response is delivered and the thread takes the next request
Return(p) ==
  /\ pc[p] = "done"
  /\ pc' = [ pc EXCEPT ![p] = "idle" ]
  /\ req' = [ req EXCEPT ![p] = NoReq ]
  /\ loc' = [ loc EXCEPT ![p] = NoLoc ]
  /\ resp' = [ resp EXCEPT ![p] = NoResp ]
  /\ UNCHANGED << files, feedback_file, call, feedback_db, cache, nreq, commits >>

\* ------------------------------------------------------------------------
\* Initial states
\* ------------------------------------------------------------------------
\* the artifacts of a deployment whose model was trained before startup
Deployed ==
  << Artifact(0, CodecColumns, DatasetRows), Artifact(0, CodecColumns, 0),
     Artifact(0, CodecColumns, Min(background_rows, DatasetRows)) >>

NoArtifacts == << NoArtifact, NoArtifact, NoArtifact >>

Zeros(z) == [ i \in 1..z |-> Line(i, 0) ]
Ones(z, o) == [ i \in 1..o |-> Line(z + i, 1) ]
Copies(n, ln) == [ i \in 1..n |-> ln ]

\* feedback files of the service specification
ServiceFeedbackFiles ==
  { FeedbackFile(Zeros(3) \o Ones(3, 1)),
    FeedbackFile(Zeros(4) \o Ones(4, 2)) }

InitCommon ==
  /\ feedback_db = << >>
  /\ call = NoCall
  /\ cache_model = None
  /\ cache_feature_names = None
  /\ cache_background_data = None
  /\ pc = [ p \in Procs |-> "idle" ]
  /\ req = [ p \in Procs |-> NoReq ]
  /\ loc = [ p \in Procs |-> NoLoc ]
  /\ resp = [ p \in Procs |-> NoResp ]
  /\ nreq = 0

Init ==
  /\ \E a \in { NoArtifacts, Deployed } :
       /\ model_file = a[1]
       /\ schema_file = a[2]
       /\ bg_file = a[3]
       /\ commits = IF a = Deployed THEN << a >> ELSE << >>
  /\ feedback_file \in ServiceFeedbackFiles
  /\ InitCommon

Next ==
  \E p \in Procs :
    \/ BeginTrain(p) \/ TrainDumpModel(p)
    \/ TrainDumpSchema(p) \/ TrainDumpBackground(p)
    \/ BeginRetrainApi(p) \/ BeginRetrain(p)
    \/ RetrainPreprocess(p) \/ RetrainAlign(p) \/ RetrainLoadAndFit(p)
    \/ RetrainDumpModel(p) \/ RetrainDumpBackground(p)
    \/ BeginPredict(p) \/ BeginExplain(p) \/ LoadModel(p)
    \/ LoadSchema(p) \/ LoadBackground(p) \/ LoadReturn(p) \/ Infer(p)
    \/ BeginFeedback(p)
    \/ BeginCompare(p)
    \/ Return(p)

Spec == Init /\ [][Next]_vars

\* ------------------------------------------------------------------------
\* One retrain call over a family of feedback files
\* ------------------------------------------------------------------------
\* z records labelled 0 and o records labelled 1 with pairwise different
\* raw fields, and dz + do further records with the raw fields of record 1,
\* labelled 0 and 1, placed before or after them
FamilyLines(z, o, dz, do, first) ==
  LET base == Zeros(z) \o Ones(z, o)
      dups == Copies(dz, Line(1, 0)) \o Copies(do, Line(1, 1))
  IN IF first THEN dups \o base ELSE base \o dups

Defects ==
  { "none", "garbage_line", "no_grade_anywhere", "no_grade_in_first",
    "no_status_anywhere", "no_status_in_first", "string_status_in_first",
    "status_2_in_first" }

Defect(lines, d) ==
  IF d = "garbage_line"
    THEN Append(lines, [ Line(0, 0) EXCEPT !.json = FALSE ])
  ELSE IF d = "no_grade_anywhere"
    THEN [ i \in DOMAIN lines |-> [ lines[i] EXCEPT !.missing = {"loan_grade"} ] ]
  ELSE IF d = "no_status_anywhere"
    THEN [ i \in DOMAIN lines |-> [ lines[i] EXCEPT !.missing = {"actual_status"} ] ]
  ELSE IF lines = << >> \/ d = "none" THEN lines
  ELSE IF d = "no_grade_in_first"
    THEN [ lines EXCEPT ![1].missing = {"loan_grade"} ]
  ELSE IF d = "no_status_in_first"
    THEN [ lines EXCEPT ![1].missing = {"actual_status"} ]
  ELSE IF d = "string_status_in_first"
    THEN [ lines EXCEPT ![1].ltype = "str" ]
  ELSE [ lines EXCEPT ![1].label = 2 ]

FeedbackFamily ==
  { FeedbackFile(Defect(FamilyLines(z, o, dz, do, first), d)) :
      z \in 0..MaxZeros, o \in 0..MaxOnes, dz \in 0..MaxDupZeros,
      do \in 0..MaxDupOnes, first \in BOOLEAN, d \in Defects }
  \cup { NoFeedbackFile }

\* the artifact files a train or retrain leaves behind, complete or not
ArtifactStates ==
  { NoArtifacts, Deployed,
    << Deployed[1], NoArtifact, NoArtifact >>,
    << Deployed[1], Deployed[2], NoArtifact >>,
    << NoArtifact, Deployed[2], NoArtifact >> }

InitRetrain ==
  /\ \E a \in ArtifactStates :
       /\ model_file = a[1]
       /\ schema_file = a[2]
       /\ bg_file = a[3]
       /\ commits = IF a = Deployed THEN << a >> ELSE << >>
  /\ feedback_file \in FeedbackFamily
  /\ InitCommon

NextRetrain ==
  \/ BeginRetrain(1)
  \/ RetrainPreprocess(1) \/ RetrainAlign(1) \/ RetrainLoadAndFit(1)
  \/ RetrainDumpModel(1) \/ RetrainDumpBackground(1)

SpecRetrain == InitRetrain /\ [][NextRetrain]_vars

\* ------------------------------------------------------------------------
\* Properties of the artifact commit (specification Spec)
\* ------------------------------------------------------------------------
WriterKinds == { "train", "retrain", "retrain_api" }

InferenceKinds == { "predict", "explain" }

\* C1: a training or retraining attempt that fails while writing its
\* artifacts leaves every persisted artifact as it was: the failed attempt
\* has replaced none of the three files.
C1_FailedCommitWroteNothing ==
  \A p \in Procs :
    ( /\ pc[p] = "done"
      /\ req[p].kind \in WriterKinds
      /\ resp[p].err.kind = "ArtifactIOError" )
    => loc[p].wrote = {}

\* the writers whose commit has started and not ended: some file of the new
\* version is on disk and another is still to be written
MidCommit ==
  { q \in Procs : pc[q] \in { "t_dump_schema", "t_dump_bg", "r_dump_bg" } }

\* C2: the triple _load_model hands to an inference request while a writer
\* is between the first and the last write of its commit is one committed
\* version: model, schema and background sample of the same commit.
C2_LoaderReturnsOneVersion ==
  \A p \in Procs :
    ( /\ pc[p] = "i_preprocess"
      /\ req[p].kind \in InferenceKinds
      /\ MidCommit # {} )
    => loc[p].triple \in Range(commits)

\* C3: an inference request that began after n0 commits had completed and
\* was served by one committed version was served by the n0-th commit or a
\* later one, never by an older version held in the cache.
C3_InferenceServesLatestCommit ==
  \A p \in Procs :
    ( /\ pc[p] = "done"
      /\ req[p].kind \in InferenceKinds
      /\ resp[p].code = 200
      /\ loc[p].n0 > 0
      /\ resp[p].served \in Range(commits) )
    => \E i \in loc[p].n0 .. Len(commits) : resp[p].served = commits[i]

\* the retraining passes between loading the current model and their last
\* artifact write
RetrainingInFlight ==
  { p \in Procs : /\ req[p].kind \in { "retrain", "retrain_api" }
                  /\ pc[p] \in { "r_dump_model", "r_dump_bg" } }

\* C4: at most one retraining pass at a time is between loading the
\* current model and writing its last artifact.
C4_RetrainSerialized == Cardinality(RetrainingInFlight) <= 1

\* ------------------------------------------------------------------------
\* Properties of the retraining pass
\* ------------------------------------------------------------------------
Records(f) == IF f.exists THEN Range(f.lines) ELSE {}

\* a record carries a label a classifier can be fitted on
GoodLabel(ln) ==
  "actual_status" \notin ln.missing /\ ln.ltype = "int" /\ ln.label \in {0, 1}

\* the number of records of the batch labelled l
Labelled(f, l) == Cardinality({ i \in DOMAIN f.lines : f.lines[i].label = l })

\* the distinct records of the batch, compared on every field but the label
Distinct(f) ==
  { [ key |-> ln.key, missing |-> ln.missing \ { "actual_status" } ] :
      ln \in Range(f.lines) }

\* the gates the feedback batch has to pass, stated on the batch itself:
\* the file is missing or empty, a required field is in no record, a label
\* is absent, non-numeric or outside {0, 1}, fewer than 5 records, a class
\* below 10 percent of the batch, fewer than 5 records once duplicates are
\* dropped
GateViolated(f) ==
  \/ ~f.exists
  \/ Len(f.lines) = 0
  \/ \E c \in Range(required_cols) : \A ln \in Range(f.lines) : c \in ln.missing
  \/ \E ln \in Range(f.lines) : ~GoodLabel(ln)
  \/ Len(f.lines) < 5
  \/ \E l \in {0, 1} :
       /\ Labelled(f, l) > 0
       /\ Labelled(f, 1 - l) > 0
       /\ Labelled(f, l) * 10 < Len(f.lines)
  \/ Cardinality(Distinct(f)) < 5

RetrainWorkSteps ==
  { "r_preprocess", "r_align", "r_load_model", "r_dump_model", "r_dump_bg" }

\* C5: when the feedback batch violates a validation gate, no step of the
\* retraining pass changes a persisted artifact, and the pass never gets
\* to preprocessing, to loading the model or to fitting.
C5_GateFailureAbortsBeforeFit ==
  [][ GateViolated(feedback_file)
      => /\ files' = files
         /\ \A p \in Procs : /\ pc'[p] \notin RetrainWorkSteps
                             /\ ~loc'[p].loaded_model ]_vars

\* a pass over a batch of eleven records, one of them of the minority
\* class, has ended with the class-imbalance error and the deployed
\* artifacts are in place
C5_Witness ==
  \E p \in Procs :
    /\ pc[p] = "done"
    /\ req[p].kind = "retrain"
    /\ GateViolated(feedback_file)
    /\ Len(feedback_file.lines) >= 5
    /\ resp[p].err.kind = "ClassImbalance"
    /\ files = Deployed

\* C6: a training or retraining attempt whose fit raises has written none
\* of the three artifacts, the start without a schema file included.
C6_FitFailureWroteNothing ==
  \A p \in Procs :
    ( /\ pc[p] = "done"
      /\ req[p].kind \in WriterKinds
      /\ resp[p].err.kind = "FitError" )
    => loc[p].wrote = {}

\* a batch that passes every gate
ValidBatch(f) == f.exists /\ ~GateViolated(f)

Authorised(q) == q.role \in { "admin", "analyst" }

\* C7: POST /retrain by an admin or analyst over a batch that passes every
\* gate answers 200 with status, samples_used, accuracy_on_feedback and
\* class_balance, unless the fit or an artifact write failed.
C7_RetrainApiSucceeds ==
  \A p \in Procs :
    ( /\ pc[p] = "done"
      /\ req[p].kind = "retrain_api"
      /\ Authorised(req[p])
      /\ ValidBatch(feedback_file)
      /\ resp[p].err.kind \notin { "FitError", "ArtifactIOError" } )
    => /\ resp[p].code = 200
       /\ { "status", "samples_used", "accuracy_on_feedback",
            "class_balance" } \subseteq resp[p].keys

\* C8: every feedback record feedback_api had accepted when a retraining
\* pass was called is among the records that pass reads.
C8_AcceptedFeedbackIsRead ==
  \A p \in Procs :
    ( req[p].kind = "retrain" /\ pc[p] # "idle" )
    => \A i \in 1 .. loc[p].seen_db : feedback_db[i] \in Records(feedback_file)

ValidationKinds ==
  { "MissingColumns", "NonNumericLabel", "InvalidLabel", "InsufficientData",
    "ClassImbalance", "TooFewAfterDedup" }

\* the batch is there and fails a gate on its content
ContentGateViolated(f) == f.exists /\ Len(f.lines) > 0 /\ GateViolated(f)

\* C9: POST /retrain answers 400 with the gate's message when the batch
\* fails validation, and 500 when the fit or an artifact write fails.
C9_RetrainApiStatusCodes ==
  \A p \in Procs :
    ( /\ pc[p] = "done"
      /\ req[p].kind = "retrain_api"
      /\ Authorised(req[p]) )
    => /\ ContentGateViolated(feedback_file)
            => resp[p].code = 400 /\ resp[p].err.kind \in ValidationKinds
       /\ resp[p].err.kind \in { "FitError", "ArtifactIOError" }
            => resp[p].code = 500

\* a finished direct call of retrain_model_from_feedback
RetrainDone(p) == pc[p] = "done" /\ req[p].kind = "retrain"

InsufficientData(r, n) ==
  /\ r.err.exc = "ValueError"
  /\ r.err.kind = "InsufficientData"
  /\ r.err.info = << 5, n >>

\* C10 as stated: a pass over a feedback file of fewer than 5 records, the
\* empty file included, fails with the insufficient-data error that names
\* the minimum 5 and the number of records.
C10_SmallBatchInsufficientData ==
  \A p \in Procs :
    ( RetrainDone(p) /\ feedback_file.exists /\ Len(feedback_file.lines) < 5 )
    => InsufficientData(resp[p], Len(feedback_file.lines))

\* every line parses, every required field is in some record, every label
\* is 0 or 1
WellFormed(f) ==
  /\ \A ln \in Range(f.lines) : ln.json /\ GoodLabel(ln)
  /\ \A c \in Range(required_cols) : \E ln \in Range(f.lines) : c \notin ln.missing

\* C10 (amended): a pass over 1 to 4 records that all parse, carry every
\* required field and a label 0 or 1 fails with the insufficient-data
\* error that names the minimum 5 and the number of records.
C10_SmallWellFormedBatch ==
  \A p \in Procs :
    ( /\ RetrainDone(p)
      /\ feedback_file.exists
      /\ Len(feedback_file.lines) \in 1 .. 4
      /\ WellFormed(feedback_file) )
    => InsufficientData(resp[p], Len(feedback_file.lines))

\* a pass over four well-formed records has ended with the error (5, 4)
C10_Witness ==
  \E p \in Procs :
    /\ RetrainDone(p)
    /\ Len(feedback_file.lines) = 4
    /\ WellFormed(feedback_file)
    /\ InsufficientData(resp[p], 4)

\* ------------------------------------------------------------------------
\* Properties of the validation gates (specification SpecRetrain)
\* ------------------------------------------------------------------------
\* the batch: a non-empty file whose lines all parse
Batch(f) == f.exists /\ Len(f.lines) > 0 /\ \A ln \in Range(f.lines) : ln.json

\* the gates, each stated on the batch alone
SchemaGateViolated(f) ==
  \E c \in Range(required_cols) : \A ln \in Range(f.lines) : c \in ln.missing

LabelGateViolated(f) == \E ln \in Range(f.lines) : ~GoodLabel(ln)

VolumeGateViolated(f) == Len(f.lines) < 5

\* both labels occur and the minority is less than a tenth of the batch
BalanceGateViolated(f) ==
  \E l \in {0, 1} :
    /\ Labelled(f, l) > 0
    /\ Labelled(f, 1 - l) > 0
    /\ Labelled(f, l) * 10 < Len(f.lines)

DedupGateViolated(f) == Cardinality(Distinct(f)) < 5

\* a retraining call that has read the batch
RetrainCalled(p) == req[p].kind = "retrain" /\ pc[p] # "idle"

FailedWith(p, kinds) == pc[p] = "done" /\ resp[p].err.kind \in kinds

\* C11: a batch that passed the completeness, label and minimum-volume
\* gates is rejected by the class-balance gate exactly when both labels
\* occur and the minority label is strictly less than a tenth of the batch.
C11_BalanceGateIff ==
  \A p \in Procs :
    ( /\ RetrainCalled(p)
      /\ Batch(feedback_file)
      /\ ~SchemaGateViolated(feedback_file)
      /\ ~LabelGateViolated(feedback_file)
      /\ ~VolumeGateViolated(feedback_file) )
    => ( FailedWith(p, { "ClassImbalance" })
           <=> BalanceGateViolated(feedback_file) )

\* a batch of nine records of label 0 and one of label 1 (minority exactly
\* a tenth) has passed validation
C11_Witness ==
  \E p \in Procs :
    /\ req[p].kind = "retrain"
    /\ pc[p] = "r_preprocess"
    /\ Labelled(feedback_file, 0) = 9
    /\ Labelled(feedback_file, 1) = 1

\* the error kinds of the gate that is violated first, in the order schema
\* completeness, label type, minimum volume, class balance, duplicates
FirstGateKinds(f) ==
  IF SchemaGateViolated(f) THEN { "MissingColumns" }
  ELSE IF LabelGateViolated(f) THEN { "NonNumericLabel", "InvalidLabel" }
  ELSE IF VolumeGateViolated(f) THEN { "InsufficientData" }
  ELSE IF BalanceGateViolated(f) THEN { "ClassImbalance" }
  ELSE IF DedupGateViolated(f) THEN { "TooFewAfterDedup" }
  ELSE { }

\* C12: the gates are evaluated in the order schema completeness, label
\* type, minimum volume, class balance, duplicate suppression: a finished
\* pass reports the error of the earliest violated gate (the errors of
\* different gates are different), and no gate error when none is violated.
C12_EarliestGateReported ==
  \A p \in Procs :
    ( RetrainDone(p) /\ Batch(feedback_file) )
    => IF FirstGateKinds(feedback_file) # { }
       THEN resp[p].err.kind \in FirstGateKinds(feedback_file)
       ELSE resp[p].err.kind \notin ValidationKinds

\* a batch that is too small, carries a label outside {0, 1} and has
\* every column was rejected for its label
C12_Witness ==
  \E p \in Procs :
    /\ RetrainDone(p)
    /\ Batch(feedback_file)
    /\ ~SchemaGateViolated(feedback_file)
    /\ LabelGateViolated(feedback_file)
    /\ VolumeGateViolated(feedback_file)
    /\ DedupGateViolated(feedback_file)
    /\ resp[p].err.kind = "InvalidLabel"

\* C13: a batch with every required field whose actual_status is
\* non-numeric, absent in a record or outside {0, 1} fails with the
\* invalid-label error, whatever its size and class composition.
C13_InvalidLabelRejected ==
  \A p \in Procs :
    ( /\ RetrainCalled(p)
      /\ Batch(feedback_file)
      /\ ~SchemaGateViolated(feedback_file)
      /\ LabelGateViolated(feedback_file) )
    => FailedWith(p, { "NonNumericLabel", "InvalidLabel" })

\* a batch of at least eleven records, imbalanced, one of them without a
\* label, was rejected for its label
C13_Witness ==
  \E p \in Procs :
    /\ RetrainDone(p)
    /\ Batch(feedback_file)
    /\ Len(feedback_file.lines) >= 11
    /\ BalanceGateViolated(feedback_file)
    /\ \E ln \in Range(feedback_file.lines) : "actual_status" \in ln.missing
    /\ ~SchemaGateViolated(feedback_file)
    /\ resp[p].err.kind = "InvalidLabel"

RawFields(ln) == [ key |-> ln.key, missing |-> ln.missing \ { "actual_status" } ]

\* the batch passes every gate ahead of duplicate suppression
PassesUpToBalance(f) ==
  /\ Batch(f)
  /\ ~SchemaGateViolated(f)
  /\ ~LabelGateViolated(f)
  /\ ~VolumeGateViolated(f)
  /\ ~BalanceGateViolated(f)

\* C14: the records a pass goes on to fit are the batch with the records
\* of equal raw fields (label ignored) collapsed to one: no two of them
\* have the same raw fields and each raw record of the batch is among
\* them; when fewer than 5 remain the pass fails with the
\* insufficient-data error of the duplicate gate and nothing is fitted.
C14_DuplicatesCollapsed ==
  \A p \in Procs :
    /\ ( RetrainCalled(p) /\ pc[p] \in RetrainWorkSteps )
       => LET kept == loc[p].df_clean IN
            /\ \A i, j \in DOMAIN kept :
                 RawFields(kept[i]) = RawFields(kept[j]) => i = j
            /\ { RawFields(kept[i]) : i \in DOMAIN kept } = Distinct(feedback_file)
            /\ Len(kept) >= 5
            /\ pc[p] # "r_preprocess" => loc[p].X.rows = Len(kept)
    /\ ( /\ RetrainCalled(p)
         /\ PassesUpToBalance(feedback_file)
         /\ DedupGateViolated(feedback_file) )
       => /\ FailedWith(p, { "TooFewAfterDedup" })
          /\ resp[p].err.exc = "ValueError"
          /\ ~loc[p].loaded_model

\* a pass over a batch with repeated records has fitted on fewer records
\* than the batch holds
C14_Witness ==
  \E p \in Procs :
    /\ req[p].kind = "retrain"
    /\ pc[p] = "r_dump_model"
    /\ Len(loc[p].df_clean) < Len(feedback_file.lines)
    /\ loc[p].model.rows = Len(loc[p].df_clean)

\* ------------------------------------------------------------------------
\* The codec called on its own: every record, every schema
\* ------------------------------------------------------------------------
\* a categorical value outside the category universe
UnknownCategory == "UNKNOWN"

CategoriesOf(field) ==
  CATEGORIES[CHOOSE i \in DOMAIN CATEGORIES : CATEGORIES[i][1] = field][2]

\* request.model_dump(): the eleven fields in the order of LoanRequest;
\* a numeric field holds its position, a categorical field the value
\* cats[field]
BorrowerRecord(cats) ==
  [ i \in DOMAIN raw_cols |->
      Col(<< raw_cols[i] >>,
          IF raw_cols[i] \in CategoricalFields THEN Str(cats[raw_cols[i]])
                                               ELSE Num(i)) ]

\* the values a categorical field is given: its categories and one more
ValuesOf(field) == Range(CategoriesOf(field)) \cup { UnknownCategory }

BorrowerRecords ==
  { BorrowerRecord([ f \in CategoricalFields |->
                       IF f = "person_home_ownership" THEN h
                       ELSE IF f = "loan_intent" THEN li
                       ELSE IF f = "loan_grade" THEN g
                       ELSE d ]) :
      h \in ValuesOf("person_home_ownership"), li \in ValuesOf("loan_intent"),
      g \in ValuesOf("loan_grade"), d \in ValuesOf("cb_person_default_on_file") }

Reverse(q) == [ i \in DOMAIN q |-> q[Len(q) + 1 - i] ]

\* a feature name no record produces
LegacyFeature == << "legacy_feature" >>

NumericCount == Len(raw_cols) - Len(CATEGORIES) + 1

\* the contents feature_names.pkl is given in the codec specification
SchemaLists ==
  { CodecColumns,
    Reverse(CodecColumns),
    SubSeq(CodecColumns, 1, NumericCount),
    SubSeq(CodecColumns, NumericCount, Len(CodecColumns)),
    << LegacyFeature >> \o CodecColumns,
    << LegacyFeature >> \o Reverse(SubSeq(CodecColumns, 1, NumericCount + 2)),
    << >> }

SchemaFiles == { Artifact(0, S, 0) : S \in SchemaLists } \cup { NoArtifact }

rest ==
  << files, feedback_file, feedback_db, cache, pc, req, loc, resp, nreq,
     commits >>

\* preprocess_data_for_prediction(df) with feature_names.pkl as call.schema
CallPreprocess ==
  /\ call.fn = "none"
  /\ LET e == Encode(call.in) IN
       call' = [ call EXCEPT
                   !.fn = "preprocess",
                   !.vec = e.df,
                   !.out = preprocess_data_for_prediction(call.in, call.schema) ]
  /\ UNCHANGED rest

\* step 10 of retrain_model_from_feedback on the encoded row
CallRetrainAlign ==
  /\ call.fn = "none"
  /\ LET X == Encode(call.in).df
         expected_features == IF call.schema.exists THEN call.schema.cols
                                                    ELSE Names(X)
     IN call' = [ call EXCEPT
                    !.fn = "retrain_align",
                    !.vec = X,
                    !.out = Frame(RetrainAlignFeatures(X, expected_features)) ]
  /\ UNCHANGED rest

\* preprocess_data_for_prediction on the frame the previous call returned
CallPreprocessAligned ==
  /\ call.fn = "preprocess"
  /\ call.out.ok
  /\ call.schema.exists
  /\ call' = [ call EXCEPT
                 !.fn = "preprocess_aligned",
                 !.in = call.out.df,
                 !.vec = Encode(call.out.df).df,
                 !.out = preprocess_data_for_prediction(call.out.df, call.schema) ]
  /\ UNCHANGED rest

InitCodec ==
  /\ model_file = NoArtifact
  /\ schema_file = NoArtifact
  /\ bg_file = NoArtifact
  /\ commits = << >>
  /\ feedback_file = NoFeedbackFile
  /\ feedback_db = << >>
  /\ cache_model = None
  /\ cache_feature_names = None
  /\ cache_background_data = None
  /\ pc = [ p \in Procs |-> "idle" ]
  /\ req = [ p \in Procs |-> NoReq ]
  /\ loc = [ p \in Procs |-> NoLoc ]
  /\ resp = [ p \in Procs |-> NoResp ]
  /\ nreq = 0
  /\ \E r \in BorrowerRecords, S \in SchemaFiles :
       call = [ NoCall EXCEPT !.in = r, !.schema = S ]

NextCodec == CallPreprocess \/ CallRetrainAlign \/ CallPreprocessAligned

SpecCodec == InitCodec /\ [][NextCodec]_vars

\* ------------------------------------------------------------------------
\* Properties of the codec (specification SpecCodec)
\* ------------------------------------------------------------------------
\* the cell of the column called name in the frame v
CellOf(v, name) == v[CHOOSE j \in DOMAIN v : v[j].name = name].val

\* C15: aligning a feature vector to a persisted schema S, on the
\* inference path and on the retrain path, gives exactly the names of S in
\* the order of S; a name of S the vector lacks has the value 0, a name of
\* S the vector has keeps its value, a name outside S is dropped.
C15_AlignedToSchema ==
  ( call.fn \in { "preprocess", "retrain_align" } /\ call.schema.exists )
  => LET S == call.schema.cols
         out == call.out.df
     IN /\ call.out.ok
        /\ Len(out) = Len(S)
        /\ \A i \in DOMAIN S :
             /\ out[i].name = S[i]
             /\ out[i].val =
                  IF \E j \in DOMAIN call.vec : call.vec[j].name = S[i]
                  THEN CellOf(call.vec, S[i])
                  ELSE [ num |-> 0, den |-> 1, str |-> "" ]

\* a record was aligned to a schema that holds a name the record does not
\* produce, lacks names it produces and orders the others differently
C15_Witness ==
  /\ call.fn = "preprocess"
  /\ call.schema.exists
  /\ \E i \in DOMAIN call.schema.cols :
       \A j \in DOMAIN call.vec : call.vec[j].name # call.schema.cols[i]
  /\ \E j \in DOMAIN call.vec :
       \A i \in DOMAIN call.schema.cols : call.vec[j].name # call.schema.cols[i]
  /\ \E i, j \in DOMAIN call.vec :
       /\ i < j
       /\ \E k, l \in DOMAIN call.out.df :
            /\ l < k
            /\ call.out.df[k].name = call.vec[i].name
            /\ call.out.df[l].name = call.vec[j].name

\* C17: preprocess_data_for_prediction applied to a vector that is already
\* aligned to the persisted schema succeeds and returns that vector.
C17_AlignedIsFixedPoint ==
  call.fn = "preprocess_aligned"
  => call.out.ok /\ call.out.df = call.in

\* the indicator columns of a field in the encoded frame
IndicatorsOf(v, field) ==
  { j \in DOMAIN v : Len(v[j].name) = 2 /\ v[j].name[1] = field }

RecordValue(r, field) == CellOf(r, << field >>).str

\* C18: for every record and every categorical field the codec removes the
\* field and emits one indicator per category of the field, no other; the
\* indicator of the record's value is 1 and the others are 0, and all are
\* 0 when the value is outside the category universe.
C18_OneHotOverUniverse ==
  call.fn = "preprocess"
  => \A field \in CategoricalFields :
       LET v == call.vec
           cats == CategoriesOf(field)
       IN /\ \A j \in DOMAIN v : v[j].name # << field >>
          /\ Cardinality(IndicatorsOf(v, field)) = Len(cats)
          /\ \A c \in Range(cats) :
               \E j \in IndicatorsOf(v, field) :
                 /\ v[j].name = << field, c >>
                 /\ v[j].val.num = IF RecordValue(call.in, field) = c THEN 1 ELSE 0
                 /\ v[j].val.den = 1
          /\ Cardinality({ j \in IndicatorsOf(v, field) : v[j].val.num = 1 })
               = IF RecordValue(call.in, field) \in Range(cats) THEN 1 ELSE 0

\* a record with a grade outside the universe and a known home ownership
\* was encoded
C18_Witness ==
  /\ call.fn = "preprocess"
  /\ RecordValue(call.in, "loan_grade") \notin Range(CategoriesOf("loan_grade"))
  /\ RecordValue(call.in, "person_home_ownership") = "RENT"
  /\ \E j \in DOMAIN call.vec :
       /\ call.vec[j].name = << "person_home_ownership", "RENT" >>
       /\ call.vec[j].val.num = 1

\* ------------------------------------------------------------------------
\* One handler thread: requests one after another, and the codec called
\* on one record between their steps
\* ------------------------------------------------------------------------
\* the record encoded: known categories, but a grade outside the universe
SeqRecords ==
  { BorrowerRecord([ f \in CategoricalFields |->
                       IF f = "loan_grade" THEN UnknownCategory
                                           ELSE CategoriesOf(f)[1] ]) }

\* preprocess_data_for_prediction(record) with feature_names.pkl as it is
\* on disk now
EncodeRecord ==
  /\ call.n < MaxCalls
  /\ LET out == preprocess_data_for_prediction(call.in, schema_file) IN
       call' = [ call EXCEPT
                   !.fn = "preprocess",
                   !.schema = schema_file,
                   !.vec = Encode(call.in).df,
                   !.out = out,
                   !.n = @ + 1,
                   !.first_schema = IF call.n = 0 THEN schema_file ELSE @,
                   !.first_out = IF call.n = 0 THEN out ELSE @ ]
  /\ UNCHANGED rest

InitSeq ==
  /\ \E a \in { NoArtifacts, Deployed } :
       /\ model_file = a[1]
       /\ schema_file = a[2]
       /\ bg_file = a[3]
       /\ commits = IF a = Deployed THEN << a >> ELSE << >>
  /\ feedback_file \in ServiceFeedbackFiles
  /\ feedback_db = << >>
  /\ cache_model = None
  /\ cache_feature_names = None
  /\ cache_background_data = None
  /\ pc = [ p \in Procs |-> "idle" ]
  /\ req = [ p \in Procs |-> NoReq ]
  /\ loc = [ p \in Procs |-> NoLoc ]
  /\ resp = [ p \in Procs |-> NoResp ]
  /\ nreq = 0
  /\ call = NoCall

\* the steps of a train or retrain request of the one thread
WriterSteps ==
  \/ BeginTrain(1) \/ TrainDumpModel(1) \/ TrainDumpSchema(1)
  \/ TrainDumpBackground(1)
  \/ BeginRetrain(1) \/ RetrainPreprocess(1) \/ RetrainAlign(1)
  \/ RetrainLoadAndFit(1) \/ RetrainDumpModel(1) \/ RetrainDumpBackground(1)
  \/ Return(1)

NextSeq ==
  \/ WriterSteps
  \/ BeginPredict(1) \/ BeginExplain(1)
  \/ LoadModel(1) \/ LoadSchema(1) \/ LoadBackground(1) \/ LoadReturn(1)
  \/ Infer(1)
  \/ BeginCompare(1)

SpecSeq == InitSeq /\ [][NextSeq]_vars

\* the codec called on one record between the steps of train and retrain
InitEncode ==
  /\ \E a \in { NoArtifacts, Deployed } :
       /\ model_file = a[1]
       /\ schema_file = a[2]
       /\ bg_file = a[3]
       /\ commits = IF a = Deployed THEN << a >> ELSE << >>
  /\ feedback_file \in ServiceFeedbackFiles
  /\ feedback_db = << >>
  /\ cache_model = None
  /\ cache_feature_names = None
  /\ cache_background_data = None
  /\ pc = [ p \in Procs |-> "idle" ]
  /\ req = [ p \in Procs |-> NoReq ]
  /\ loc = [ p \in Procs |-> NoLoc ]
  /\ resp = [ p \in Procs |-> NoResp ]
  /\ nreq = 0
  /\ \E r \in SeqRecords : call = [ NoCall EXCEPT !.in = r ]

NextEncode == WriterSteps \/ EncodeRecord

SpecEncode == InitEncode /\ [][NextEncode]_vars

C20_TripleConsistent ==
  /\ \A i \in DOMAIN commits :
       /\ commits[i][1].exists /\ commits[i][2].exists /\ commits[i][3].exists
       /\ commits[i][1].cols = commits[i][2].cols
       /\ commits[i][3].cols = commits[i][2].cols
  /\ \A p \in Procs :
       ( /\ pc[p] = "done"
         /\ req[p].kind \in WriterKinds
         /\ resp[p].err.ok
         /\ resp[p].keys # { } )
       => /\ files = commits[Len(commits)]
          /\ model_file.cols = schema_file.cols
          /\ bg_file.cols = schema_file.cols
  /\ \A p \in Procs :
       ( /\ pc[p] = "done"
         /\ req[p].kind \in InferenceKinds
         /\ resp[p].code = 200 )
       => resp[p].served[2].cols = resp[p].served[1].cols

\* a retrain over an existing triple has succeeded
C20_Witness ==
  \E p \in Procs :
    /\ pc[p] = "done"
    /\ req[p].kind = "retrain"
    /\ resp[p].err.ok
    /\ "samples_used" \in resp[p].keys
    /\ Len(commits) >= 2
    /\ files = commits[Len(commits)]

C28_LoadReturnsFullTriple ==
  /\ \A p \in Procs :
       pc[p] = "i_preprocess"
         => \A i \in 1..3 : loc[p].triple[i] # None
  /\ \A p \in Procs :
       ( /\ pc[p] = "done"
         /\ req[p].kind \in InferenceKinds
         /\ resp[p].err.kind = "LoadFailed"
         /\ \A q \in Procs \ {p} : pc[q] \in { "idle", "done" } )
       => cache = << None, None, None >>

\* ------------------------------------------------------------------------
\* The records model.fit is given (specification SpecRetrain)
\* ------------------------------------------------------------------------
\* C29: the records handed to model.fit satisfy the class-balance gate:
\* when both labels occur among the de-duplicated records the minority
\* fraction among them is at least 0.1, and a batch that had two classes
\* before de-duplication has two classes after it.
C29_FittedRecordsBalanced ==
  \A p \in Procs :
    pc[p] = "r_load_model"
      => /\ ~Imbalanced(class_ratio(loc[p].df_clean))
         /\ Cardinality(DOMAIN class_ratio(feedback_file.lines)) = 2
              => Cardinality(DOMAIN class_ratio(loc[p].df_clean)) = 2

\* ------------------------------------------------------------------------
\* The artifact files between operations (specification SpecSeq)
\* ------------------------------------------------------------------------
\* C30: between operations, after any sequence of train and retrain
\* attempts, the feature schema exists iff the model exists iff the
\* background sample exists.
C30_ArtifactsCoexist ==
  ( \A p \in Procs : pc[p] \in { "idle", "done" } )
    => /\ schema_file.exists <=> model_file.exists
       /\ model_file.exists <=> bg_file.exists

\* ------------------------------------------------------------------------
\* The result of a successful retrain (specification SpecRetrain)
\* ------------------------------------------------------------------------
\* the batch of the scenario: six distinct records, four labelled 0 and
\* two labelled 1
ScenarioBatch == FeedbackFile(Zeros(4) \o Ones(4, 2))

\* C23: on a successful retrain samples_used is the number of records left
\* after de-duplication (records with pairwise different raw fields), and
\* class_balance maps each label to its fraction of the validated batch;
\* for the scenario batch the result is samples_used 6 and class_balance
\* {0: 4/6, 1: 2/6}.
C23_SamplesUsedAndClassBalance ==
  \A p \in Procs :
    ( RetrainDone(p) /\ resp[p].err.ok )
      => LET lines == feedback_file.lines
             r == resp[p]
         IN /\ r.samples_used
                 = Cardinality({ RawFields(lines[i]) : i \in DOMAIN lines })
            /\ r.samples_used = model_file.rows
            /\ DOMAIN r.class_balance
                 = { l \in {0, 1} : \E i \in DOMAIN lines : lines[i].label = l }
            /\ \A l \in DOMAIN r.class_balance :
                 r.class_balance[l]
                   = << Cardinality({ i \in DOMAIN lines : lines[i].label = l }),
                        Len(lines) >>
            /\ feedback_file = ScenarioBatch
                 => /\ r.samples_used = 6
                    /\ r.class_balance = (0 :> << 4, 6 >> @@ 1 :> << 2, 6 >>)

\* the retrain of the scenario batch has succeeded
C23_Witness ==
  \E p \in Procs :
    /\ RetrainDone(p)
    /\ resp[p].err.ok
    /\ feedback_file = ScenarioBatch
    /\ resp[p].samples_used = 6

\* ------------------------------------------------------------------------
\* Who writes the artifact files (specification SpecSeq; every step is the
\* step of one request, so the steps are those of the service)
\* ------------------------------------------------------------------------
\* the positions at which a train or retrain dumps a file
DumpSteps ==
  { "t_dump_model", "t_dump_schema", "t_dump_bg",
    "r_align", "r_dump_model", "r_dump_bg" }

\* C24: only train and retrain write the persisted artifacts: a step that
\* changes the model, the feature schema or the background sample is a
\* dump of a train or retrain request; no step of predict, explain (and
\* the preprocess_data_for_prediction they call) or compare_models changes
\* them, whichever artifacts are missing.
C24_OnlyTrainAndRetrainWrite ==
  [][ files' # files
        => \E p \in Procs :
             /\ req[p].kind \in WriterKinds
             /\ pc[p] \in DumpSteps
             /\ pc'[p] # pc[p] ]_vars

\* predict or explain has run its codec and model call with the schema and
\* the background sample missing, and neither file has appeared
C24_Witness ==
  /\ \E p \in Procs :
       /\ pc[p] = "done"
       /\ req[p].kind \in InferenceKinds
       /\ resp[p].err.kind = "KeyError"
  /\ model_file.exists
  /\ ~schema_file.exists
  /\ ~bg_file.exists

\* ------------------------------------------------------------------------
\* The background sample of a train or retrain (specification SpecSample:
\* train and retrain requests one at a time, over feedback batches below,
\* at and above the size of the sample)
\* ------------------------------------------------------------------------
\* n distinct records, every fifth labelled 1
BalancedBatch(n) ==
  FeedbackFile(Zeros(n - (n \div 5)) \o Ones(n - (n \div 5), n \div 5))

SampleFeedbackFiles ==
  ServiceFeedbackFiles
  \cup { BalancedBatch(n) : n \in (BatchRows - 2)..BatchRows }

InitSample ==
  /\ \E a \in { NoArtifacts, Deployed } :
       /\ model_file = a[1]
       /\ schema_file = a[2]
       /\ bg_file = a[3]
       /\ commits = IF a = Deployed THEN << a >> ELSE << >>
  /\ feedback_file \in SampleFeedbackFiles
  /\ InitCommon

NextSample == WriterSteps

SpecSample == InitSample /\ [][NextSample]_vars

\* C21: after a successful train or retrain over a feature matrix of n
\* rows the background sample on disk has min(100, n) rows, all drawn from
\* the feature matrix of that pass (none from an earlier pass).
C21_BackgroundSampleOfThisPass ==
  \A p \in Procs :
    ( /\ pc[p] = "done"
      /\ req[p].kind \in WriterKinds
      /\ resp[p].err.ok
      /\ resp[p].keys # { } )
    => LET n == loc[p].X.rows IN
         /\ n = model_file.rows
         /\ bg_file.exists
         /\ bg_file.rows = IF n <= 100 THEN n ELSE 100
         /\ bg_file.ver = req[p].id
         /\ bg_file.ver = loc[p].X.ver
         /\ bg_file.cols = loc[p].X.cols

\* a pass over more than 100 rows has replaced the sample of an earlier
\* pass by 100 rows of its own
C21_Witness ==
  \E p \in Procs :
    /\ pc[p] = "done"
    /\ req[p].kind \in WriterKinds
    /\ resp[p].err.ok
    /\ resp[p].keys # { }
    /\ loc[p].X.rows > 100
    /\ bg_file.rows = 100
    /\ Len(commits) >= 2
    /\ commits[Len(commits) - 1][3].ver # bg_file.ver

\* ------------------------------------------------------------------------
\* The accuracy a retrain reports (specification SpecRetrain)
\* ------------------------------------------------------------------------
\* C22: the accuracy_on_feedback of a successful retrain is the accuracy of
\* the model artifact that retrain persisted, scored on the feature matrix
\* and labels it was fitted on.
C22_AccuracyOfPersistedModel ==
  \A p \in Procs :
    ( RetrainDone(p) /\ resp[p].err.ok )
      => /\ "accuracy_on_feedback" \in resp[p].keys
         /\ model_file.ver = req[p].id
         /\ resp[p].accuracy_on_feedback.model = model_file
         /\ resp[p].accuracy_on_feedback.X = loc[p].X
         /\ model_file.cols = loc[p].X.cols
         /\ model_file.rows = loc[p].X.rows

\* a retrain that loaded a deployed model, re-fitted it and persisted it has
\* reported an accuracy
C22_Witness ==
  \E p \in Procs :
    /\ RetrainDone(p)
    /\ resp[p].err.ok
    /\ Len(commits) >= 2
    /\ commits[1][1] # model_file
    /\ resp[p].accuracy_on_feedback.model = model_file

\* ------------------------------------------------------------------------
\* explain_prediction, step 8: the features returned (specification
\* SpecExplain: one call over each list of attributions)
\* ------------------------------------------------------------------------
\* features of the largest schema of this specification
MaxFeatures == 6

\* [:5]
top_k == 5

\* attribution values: equal and different magnitudes, both signs
ShapValues == { -2, -1, 1 }

\* abs without the sign test
Abs_signed(n) == n

Abs(n) == IF n < 0 THEN -n ELSE n

\* seq[:k]
Take(seq, k) == SubSeq(seq, 1, Min(k, Len(seq)))

\* seq without its i-th element
Remove(seq, i) == SubSeq(seq, 1, i - 1) \o SubSeq(seq, i + 1, Len(seq))

\* sorted(pairs, key=lambda x: abs(x[1]), reverse=True): a stable sort, the
\* pairs of equal magnitude keep their order
RECURSIVE sorted_by_abs(_)
sorted_by_abs(pairs) ==
  IF pairs = << >> THEN << >>
  ELSE LET i == CHOOSE i \in DOMAIN pairs :
                  /\ \A j \in DOMAIN pairs :
                       Abs(pairs[j].val.num) <= Abs(pairs[i].val.num)
                  /\ \A j \in 1..(i - 1) :
                       Abs(pairs[j].val.num) < Abs(pairs[i].val.num)
       IN << pairs[i] >> \o sorted_by_abs(Remove(pairs, i))

\* top_features
top_features(pairs) == Take(sorted_by_abs(pairs), top_k)

\* zip(feature_names, shap_vals) for a schema of n features
ShapInputs ==
  UNION { { [ i \in 1..n |-> Col(CodecColumns[i], Num(v[i])) ] :
              v \in [ 1..n -> ShapValues ] } : n \in 0..MaxFeatures }

ExplainTopFeatures ==
  /\ call.fn = "none"
  /\ call' = [ call EXCEPT !.fn = "top_features",
                           !.n = 1,
                           !.out = Frame(top_features(call.in)) ]
  /\ UNCHANGED rest

InitExplain ==
  /\ model_file = Deployed[1]
  /\ schema_file = Deployed[2]
  /\ bg_file = Deployed[3]
  /\ commits = << Deployed >>
  /\ feedback_file = NoFeedbackFile
  /\ feedback_db = << >>
  /\ cache_model = None
  /\ cache_feature_names = None
  /\ cache_background_data = None
  /\ pc = [ p \in Procs |-> "idle" ]
  /\ req = [ p \in Procs |-> NoReq ]
  /\ loc = [ p \in Procs |-> NoLoc ]
  /\ resp = [ p \in Procs |-> NoResp ]
  /\ nreq = 0
  /\ \E pairs \in ShapInputs : call = [ NoCall EXCEPT !.in = pairs ]

NextExplain == ExplainTopFeatures

SpecExplain == InitExplain /\ [][NextExplain]_vars

Magnitude(pair) == IF pair.val.num < 0 THEN 0 - pair.val.num ELSE pair.val.num

\* C25: explain_prediction returns min(5, number of schema features)
\* attributions, in order of non-increasing absolute value, each one a
\* distinct feature of the schema with its value, and no feature left out
\* has a larger absolute value than the last one returned.
C25_TopFiveByMagnitude ==
  call.fn = "top_features"
    => LET in == call.in
           out == call.out.df
       IN /\ call.out.ok
          /\ Len(out) = IF Len(in) <= 5 THEN Len(in) ELSE 5
          /\ \A i \in DOMAIN out : \E k \in DOMAIN in : in[k] = out[i]
          /\ \A i, j \in DOMAIN out : i # j => out[i].name # out[j].name
          /\ \A i, j \in DOMAIN out :
               i < j => Magnitude(out[i]) >= Magnitude(out[j])
          /\ \A k \in DOMAIN in :
               ( \A i \in DOMAIN out : out[i].name # in[k].name )
                 => Magnitude(in[k]) <= Magnitude(out[Len(out)])

\* six attributions of mixed sign and magnitude: five were returned, and the
\* one left out is as large as the last one returned
C25_Witness ==
  /\ call.fn = "top_features"
  /\ Len(call.in) = 6
  /\ Len(call.out.df) = 5
  /\ \E i, j \in DOMAIN call.in :
       call.in[i].val.num < 0 /\ call.in[j].val.num > 0
  /\ \E k \in DOMAIN call.in :
       /\ \A i \in DOMAIN call.out.df : call.out.df[i].name # call.in[k].name
       /\ Magnitude(call.in[k]) = Magnitude(call.out.df[5])
       /\ Magnitude(call.out.df[1]) > Magnitude(call.out.df[5])

\* ------------------------------------------------------------------------
\* Requests with a bearer token (specification SpecAuth: one request at a
\* time, each with one of the tokens a client can present)
\* ------------------------------------------------------------------------
\* the dependency or the handler raised the HTTPException of outcome a
\* before any work of the handler
Rejected(p, kind, token, a) ==
  /\ pc[p] = "idle"
  /\ nreq < MaxReqs
  /\ nreq' = nreq + 1
  /\ req' = [ req EXCEPT ![p] = [ kind |-> kind, role |-> "none",
                                  id |-> nreq + 1, fb |-> Line(0, 0),
                                  token |-> token ] ]
  /\ loc' = [ loc EXCEPT ![p] = Snapshot ]
  /\ pc' = [ pc EXCEPT ![p] = "done" ]
  /\ resp' = [ resp EXCEPT ![p] =
       [ NoResp EXCEPT !.code = a.code,
                       !.err = Err("HTTPException", a.kind, << >>) ] ]
  /\ UNCHANGED << files, feedback_file, call, feedback_db, cache, commits >>

\* the handler of an authenticated request returned keys
Answered(p, kind, role, token, keys) ==
  /\ pc[p] = "idle"
  /\ nreq < MaxReqs
  /\ nreq' = nreq + 1
  /\ req' = [ req EXCEPT ![p] = [ kind |-> kind, role |-> role,
                                  id |-> nreq + 1, fb |-> Line(0, 0),
                                  token |-> token ] ]
  /\ loc' = [ loc EXCEPT ![p] = Snapshot ]
  /\ pc' = [ pc EXCEPT ![p] = "done" ]
  /\ resp' = [ resp EXCEPT ![p] =
       [ NoResp EXCEPT !.code = 200, !.keys = keys, !.id = nreq + 1 ] ]
  /\ UNCHANGED << files, feedback_file, call, feedback_db, cache, commits >>

\* POST /train-final with a bearer token:
\* Depends(require_role(["admin"])) -> Depends(get_current_user)
AuthTrainFinal(p) ==
  \E token \in Tokens :
    LET a == get_current_user(token) IN
      IF a.ok THEN TrainFinalApi(p, Users[a.user].role, token)
      ELSE Rejected(p, "train", token, a)

\* POST /retrain with a bearer token
AuthRetrainApi(p) ==
  \E token \in Tokens :
    LET a == get_current_user(token) IN
      IF a.ok
      THEN BeginRetrainCall(p, "retrain_api", Users[a.user].role,
                            {"admin", "analyst"}, retrain_api_args, token)
      ELSE Rejected(p, "retrain_api", token, a)

\* GET /me: Depends(get_current_user)
AuthMe(p) ==
  \E token \in Tokens :
    LET a == get_current_user(token) IN
      IF a.ok
      THEN Answered(p, "me", Users[a.user].role, token,
                    { "id", "username", "role", "is_active" })
      ELSE Rejected(p, "me", token, a)

\* POST /refresh: the token is in the body
AuthRefresh(p) ==
  \E token \in Tokens :
    LET a == refresh_token_endpoint(token) IN
      IF a.ok
      THEN Answered(p, "refresh", Users[a.user].role, token,
                    { "access_token", "refresh_token", "token_type" })
      ELSE Rejected(p, "refresh", token, a)

InitAuth ==
  /\ \E a \in { NoArtifacts, Deployed } :
       /\ model_file = a[1]
       /\ schema_file = a[2]
       /\ bg_file = a[3]
       /\ commits = IF a = Deployed THEN << a >> ELSE << >>
  /\ feedback_file \in ServiceFeedbackFiles
  /\ InitCommon

NextAuth ==
  \/ AuthTrainFinal(1) \/ AuthRetrainApi(1) \/ AuthMe(1) \/ AuthRefresh(1)
  \/ TrainDumpModel(1) \/ TrainDumpSchema(1) \/ TrainDumpBackground(1)
  \/ Return(1)

SpecAuth == InitAuth /\ [][NextAuth]_vars

\* the token is an unexpired access token of an existing, active user whose
\* role is one of roles
AuthenticatesAs(token, roles) ==
  /\ token.decodes
  /\ token.type = "access"
  /\ token.sub \in DOMAIN Users
  /\ Users[token.sub].is_active
  /\ Users[token.sub].role \in roles

TrainSteps == { "t_dump_model", "t_dump_schema", "t_dump_bg" }

\* the handler body of the request of p has run or is running
OperationRan(p) ==
  \/ pc[p] \in TrainSteps \cup RetrainWorkSteps
  \/ /\ pc[p] = "done"
     /\ \/ loc[p].wrote # { }
        \/ loc[p].loaded_model
        \/ resp[p].code \notin { 401, 403 }

\* C26: a train-from-scratch runs only for an authenticated active admin
\* and a retrain only for an authenticated active admin or analyst; a
\* request of any other role is answered 403 and its operation has not run
\* and has written nothing.
C26_RoleGating ==
  \A p \in Procs :
    /\ ( req[p].kind = "train" /\ OperationRan(p) )
         => AuthenticatesAs(req[p].token, { "admin" })
    /\ ( req[p].kind = "retrain_api" /\ OperationRan(p) )
         => AuthenticatesAs(req[p].token, { "admin", "analyst" })
    /\ ( /\ pc[p] = "done"
         /\ \/ /\ req[p].kind = "train"
               /\ AuthenticatesAs(req[p].token, Roles \ { "admin" })
            \/ /\ req[p].kind = "retrain_api"
               /\ AuthenticatesAs(req[p].token, Roles \ { "admin", "analyst" }) )
         => /\ resp[p].code = 403
            /\ loc[p].wrote = { }
            /\ ~loc[p].loaded_model
            /\ ~OperationRan(p)

\* the retrain request of an active user of role user was refused with 403,
\* after an admin's train had run and committed
C26_Witness ==
  \E p \in Procs :
    /\ pc[p] = "done"
    /\ req[p].kind = "retrain_api"
    /\ AuthenticatesAs(req[p].token, { "user" })
    /\ resp[p].code = 403
    /\ \E i \in DOMAIN commits : commits[i][1].ver > 0

\* C27: verify_token refuses with 401 every token whose type is not the
\* type asked for; a refresh token is never accepted where an access token
\* is required, and an access token is never accepted by the refresh
\* operation.
C27_TokenTypesNotInterchangeable ==
  /\ \A token \in Tokens, ty \in { "access", "refresh" } :
       token.type # ty
         => /\ ~verify_token(token, ty).ok
            /\ verify_token(token, ty).code = 401
  /\ \A p \in Procs :
       pc[p] = "done"
         => /\ ( req[p].kind \in { "train", "retrain_api", "me" }
                 /\ req[p].token.type # "access" )
                 => resp[p].code = 401 /\ ~OperationRan(p)
            /\ ( req[p].kind = "refresh" /\ req[p].token.type # "refresh" )
                 => resp[p].code = 401

\* the refresh token of the active admin, unexpired and signed, was
\* presented to /train-final and refused for its type
C27_Witness ==
  \E p \in Procs :
    /\ pc[p] = "done"
    /\ req[p].kind = "train"
    /\ req[p].token = create_refresh_token(1)
    /\ resp[p].code = 401
    /\ resp[p].err.kind = "WrongTokenType"

====
